---------------------------- MODULE Spec2Model ----------------------------
(***************************************************************************)
(* Log normalisation and windowed feature aggregation.                     *)
(*                                                                         *)
(*   build_features  anomaly-detection-agent/scripts/build_features.py     *)
(*   convert_all     anomaly-ml/scripts/convert_all.py                     *)
(*   convert_logs    anomaly-detection-agent/scripts/convert_logs.py       *)
(*                                                                         *)
(* One behaviour is one run of one of the three programs (variable prog).  *)
(* JSON values are tagged records; a Python dict read only through .get()  *)
(* is a total function in which an absent key and a null value are both    *)
(* Null, which is what .get() returns for either.                          *)
(***************************************************************************)
EXTENDS Integers, Sequences, FiniteSets, TLC

VARIABLES
    prog,            \* which program this run is
    pc,              \* position of the program
    input,           \* build_features: the lines of IN_JSONL
    pos,             \* build_features: index of the next line of the file
    bucket_minutes,  \* build_features: argument of the current pass
    groups,          \* build_features: (service, bucket) -> accumulator
    total_rows,      \* build_features: rows loaded
    by_service,      \* build_features: service -> rows loaded
    features,        \* build_features: the CSV written by each pass
    raw_files,       \* convert_all: stems of the raw files, sorted
    file_ix,         \* convert_all: index of the raw file being read
    service_default, \* convert_all: stem of the raw file being read
    out_file,        \* convert_all: records of the current file's .jsonl
    raw,             \* converters: the lines read so far
    tried,           \* convert_all: matchers the last parse_any evaluated
    written,         \* convert_all: lines written from the current file
    skipped,         \* convert_all: lines skipped in the current file
    total_written,   \* convert_all: lines written, files closed so far
    total_skipped,   \* convert_all: lines skipped, files closed so far
    merged_out,      \* converters: records of the canonical store
    report,          \* convert_logs: the conversion report
    disk,            \* the files on disk a program reads or writes
    df_bucket,       \* pandas build_features: the column df["bucket"]
    pass_pc,         \* pandas build_features: position of each pass
    call,            \* a function applied on its own: name and arguments
    result           \* a function applied on its own: what it returned

vars == <<prog, pc, input, pos, bucket_minutes, groups, total_rows,
          by_service, features, raw_files, file_ix, service_default,
          out_file, raw, tried, written, skipped, total_written,
          total_skipped, merged_out, report, disk, df_bucket, pass_pc,
          call, result>>

aggVars == <<input, pos, bucket_minutes, groups, total_rows, by_service,
             features>>
allVars == <<raw_files, file_ix, service_default, out_file, tried, written,
             skipped, total_written, total_skipped>>
mlVars == <<df_bucket, pass_pc>>
fnVars == <<call, result>>

---------------------------------------------------------------------------
(* Bounds of the model.                                                    *)

MaxRecords == 3   \* lines of IN_JSONL in one build_features run
MaxLines == 2     \* raw lines read in one converter run
MaxFiles == 2     \* raw files of one convert_all run
MaxDurations == 5 \* durations in one call of percentile
MaxWall == 70     \* |wall-clock seconds from the epoch| in one call of floor_bucket

---------------------------------------------------------------------------
(* JSON values and Python's truth value of them.                           *)

Null == [t |-> "null", s |-> "", n |-> 0]
Str(x) == [t |-> "str", s |-> x, n |-> 0]
Num(k) == [t |-> "num", s |-> "", n |-> k]
\* a JSON array of k elements: not a dict, not hashable, not a number
Lst(k) == [t |-> "list", s |-> "", n |-> k]

Truthy(v) ==
    CASE v.t = "null" -> FALSE
      [] v.t = "str" -> v.s # ""
      [] v.t = "num" -> v.n # 0
      [] v.t = "list" -> v.n > 0

\* Python's `a or b`
Or(a, b) == IF Truthy(a) THEN a ELSE b

EmptyMap == [k \in {} |-> 0]

\* the outputs before a run: none exists, or an earlier run left them all
Before(names) == {[f \in names |-> "absent"], [f \in names |-> "old"]}

\* values of the variables a program does not use
NoDisk == [f \in {} |-> "absent"]
NoPasses == [w \in {} |-> "idle"]
NoCall == [fn |-> "none", values |-> <<>>, pct |-> 0, wall |-> 0, ms |-> 0,
           aware |-> FALSE, off |-> 0, minutes |-> 0]
NoResult == [done |-> FALSE, p |-> [whole |-> 0, micro |-> 0], bucket |-> 0]

\* str.upper() on the strings of the model
UpperTable ==
    [s \in {"error", "info", "Error", "warn"} |->
        CASE s = "error" -> "ERROR"
          [] s = "Error" -> "ERROR"
          [] s = "info" -> "INFO"
          [] s = "warn" -> "WARN"]

Upper(s) == IF s \in DOMAIN UpperTable THEN UpperTable[s] ELSE s

\* the decimal strings of the model, as int() and float() read them
DecimalTable ==
    [s \in {"503", "12000", "404"} |->
        CASE s = "503" -> 503
          [] s = "12000" -> 12000
          [] s = "404" -> 404]

\* int(x) / float(x) of a non-None value: ok = FALSE when Python raises
ToNumber(v) ==
    CASE v.t = "num" -> [ok |-> TRUE, n |-> v.n]
      [] v.t = "str" /\ v.s \in DOMAIN DecimalTable ->
            [ok |-> TRUE, n |-> DecimalTable[v.s]]
      [] OTHER -> [ok |-> FALSE, n |-> 0]

SchemaKeys ==
    {"timestamp", "service", "level", "event", "request_id", "session_id",
     "method", "path", "status_code", "duration_ms", "error_message",
     "error_type", "stacktrace_hash"}


---------------------------------------------------------------------------
(* build_features.py: timestamps.                                          *)

\* The timestamp texts of the model, lexed: the wall-clock fields as seconds
\* since 1970-01-01T00:00:00 plus milliseconds, and the zone suffix ("Z", a
\* numeric offset in minutes, or none).  Any other text is not ISO-8601.
IsoTable ==
    [s \in {"2025-01-01T00:00:30Z", "2025-01-01T00:00:45",
            "2025-01-01T00:01:10+00:00", "2025-01-01T05:30:50+05:30"} |->
        CASE s = "2025-01-01T00:00:30Z" ->
                [wall |-> 1735689630, ms |-> 0, zone |-> "Z", off |-> 0]
          [] s = "2025-01-01T00:00:45" ->
                [wall |-> 1735689645, ms |-> 0, zone |-> "naive", off |-> 0]
          [] s = "2025-01-01T00:01:10+00:00" ->
                [wall |-> 1735689670, ms |-> 0, zone |-> "offset", off |-> 0]
          [] s = "2025-01-01T05:30:50+05:30" ->
                [wall |-> 1735709450, ms |-> 0, zone |-> "offset",
                 off |-> 330]]

NoneDt == [ok |-> FALSE, wall |-> 0, ms |-> 0, aware |-> FALSE, off |-> 0]

\* parse_ts: None for a falsy value or a text fromisoformat rejects; a
\* trailing Z is read as +00:00
parse_ts(v) ==
    IF ~Truthy(v) THEN NoneDt
    ELSE IF v.t = "str" /\ v.s \in DOMAIN IsoTable
         THEN LET f == IsoTable[v.s]
              IN  [ok |-> TRUE, wall |-> f.wall, ms |-> f.ms,
                   aware |-> f.zone # "naive",
                   off |-> IF f.zone = "Z" THEN 0 ELSE f.off]
         ELSE NoneDt

\* a floor that takes every window for one minute
FloorBucketOneMinute(dt, minutes) ==
    LET off == IF dt.aware THEN dt.off ELSE 0
        secs == dt.wall - off * 60
        epoch == IF secs < 0 /\ dt.ms > 0 THEN secs + 1 ELSE secs
    IN  (epoch \div 60) * 60

\* floor_bucket: a naive datetime is taken as UTC; int() truncates the
\* POSIX timestamp toward zero; // floors
floor_bucket(dt, minutes) ==
    LET off == IF dt.aware THEN dt.off ELSE 0
        secs == dt.wall - off * 60
        epoch == IF secs < 0 /\ dt.ms > 0 THEN secs + 1 ELSE secs
    IN  (epoch \div (minutes * 60)) * (minutes * 60)

\* datetime.isoformat() of the UTC window starts of the model
IsoFormatTable ==
    [b \in {1735689600, 1735689660} |->
        CASE b = 1735689600 -> "2025-01-01T00:00:00+00:00"
          [] b = 1735689660 -> "2025-01-01T00:01:00+00:00"]

\* a formatter that writes the UTC offset as Z
IsoformatZulu(b) ==
    CASE b = 1735689600 -> "2025-01-01T00:00:00Z"
      [] b = 1735689660 -> "2025-01-01T00:01:00Z"
      [] OTHER -> "?"

isoformat(b) == IF b \in DOMAIN IsoFormatTable THEN IsoFormatTable[b] ELSE "?"

---------------------------------------------------------------------------
(* build_features.py: the fold of one record into its accumulator.         *)

NewGroup ==
    [total_logs |-> 0, events |-> {}, error_level_count |-> 0,
     http_received |-> 0, http_completed |-> 0, status_present |-> 0,
     duration_present |-> 0, http_4xx |-> 0, http_5xx |-> 0,
     durations |-> <<>>, weak_label_anomaly |-> 0]

\* groups[key] of the defaultdict
GroupAt(gs, key) == IF key \in DOMAIN gs THEN gs[key] ELSE NewGroup

\* counts in which a status_code is present only if it reads as a number
UpdateCountsNumericStatusOnly(g, obj) ==
    LET ev == obj.event
        lvl == Upper(Or(obj.level, Str("")).s)
        event == Or(obj.event, Str(""))
        status == obj.status_code
        duration == obj.duration_ms
        s == ToNumber(status)
        d == ToNumber(duration)
        hasS == status # Null /\ s.ok
        hasD == duration # Null /\ d.ok
    IN  [total_logs |-> g.total_logs + 1,
         events |-> IF Truthy(ev) THEN g.events \cup {ev} ELSE g.events,
         error_level_count |->
            g.error_level_count + (IF lvl = "ERROR" THEN 1 ELSE 0),
         http_received |->
            g.http_received
              + (IF event = Str("http.request.received") THEN 1 ELSE 0),
         http_completed |->
            g.http_completed
              + (IF event = Str("http.request.completed") THEN 1 ELSE 0),
         status_present |-> g.status_present + (IF hasS THEN 1 ELSE 0),
         duration_present |-> g.duration_present + (IF hasD THEN 1 ELSE 0),
         http_4xx |->
            g.http_4xx
              + (IF hasS /\ 400 <= s.n /\ s.n <= 499 THEN 1 ELSE 0),
         http_5xx |->
            g.http_5xx
              + (IF hasS /\ 500 <= s.n /\ s.n <= 599 THEN 1 ELSE 0),
         durations |->
            IF hasD THEN Append(g.durations, d.n) ELSE g.durations,
         weak_label_anomaly |-> g.weak_label_anomaly]

\* counts whose total_logs counts only the records that have an event
UpdateCountsTotalOfEvents(g, obj) ==
    LET ev == obj.event
        lvl == Upper(Or(obj.level, Str("")).s)
        event == Or(obj.event, Str(""))
        status == obj.status_code
        duration == obj.duration_ms
        s == ToNumber(status)
        d == ToNumber(duration)
        hasS == status # Null /\ s.ok
        hasD == duration # Null /\ d.ok
    IN  [total_logs |-> g.total_logs + (IF Truthy(ev) THEN 1 ELSE 0),
         events |-> IF Truthy(ev) THEN g.events \cup {ev} ELSE g.events,
         error_level_count |->
            g.error_level_count + (IF lvl = "ERROR" THEN 1 ELSE 0),
         http_received |->
            g.http_received
              + (IF event = Str("http.request.received") THEN 1 ELSE 0),
         http_completed |->
            g.http_completed
              + (IF event = Str("http.request.completed") THEN 1 ELSE 0),
         status_present |->
            g.status_present + (IF status # Null THEN 1 ELSE 0),
         duration_present |-> g.duration_present + (IF hasD THEN 1 ELSE 0),
         http_4xx |->
            g.http_4xx
              + (IF hasS /\ 400 <= s.n /\ s.n <= 499 THEN 1 ELSE 0),
         http_5xx |->
            g.http_5xx
              + (IF hasS /\ 500 <= s.n /\ s.n <= 599 THEN 1 ELSE 0),
         durations |->
            IF hasD THEN Append(g.durations, d.n) ELSE g.durations,
         weak_label_anomaly |-> g.weak_label_anomaly]

\* lines 86-121: the counts
UpdateCounts(g, obj) ==
    LET ev == obj.event
        lvl == Upper(Or(obj.level, Str("")).s)
        event == Or(obj.event, Str(""))
        status == obj.status_code
        duration == obj.duration_ms
        s == ToNumber(status)
        d == ToNumber(duration)
        hasS == status # Null /\ s.ok
        hasD == duration # Null /\ d.ok
    IN  [total_logs |-> g.total_logs + 1,
         events |-> IF Truthy(ev) THEN g.events \cup {ev} ELSE g.events,
         error_level_count |->
            g.error_level_count + (IF lvl = "ERROR" THEN 1 ELSE 0),
         http_received |->
            g.http_received
              + (IF event = Str("http.request.received") THEN 1 ELSE 0),
         http_completed |->
            g.http_completed
              + (IF event = Str("http.request.completed") THEN 1 ELSE 0),
         status_present |->
            g.status_present + (IF status # Null THEN 1 ELSE 0),
         duration_present |-> g.duration_present + (IF hasD THEN 1 ELSE 0),
         http_4xx |->
            g.http_4xx
              + (IF hasS /\ 400 <= s.n /\ s.n <= 499 THEN 1 ELSE 0),
         http_5xx |->
            g.http_5xx
              + (IF hasS /\ 500 <= s.n /\ s.n <= 599 THEN 1 ELSE 0),
         durations |->
            IF hasD THEN Append(g.durations, d.n) ELSE g.durations,
         weak_label_anomaly |-> g.weak_label_anomaly]

\* a weak label that looks only at the record being folded
WeakLabelOfRecordOnly(g, obj) ==
    LET s == ToNumber(obj.status_code)
        d == ToNumber(obj.duration_ms)
    IN  IF \/ obj.status_code # Null /\ s.ok /\ 500 <= s.n /\ s.n <= 599
           \/ Upper(Or(obj.level, Str("")).s) = "ERROR"
           \/ obj.duration_ms # Null /\ d.ok /\ d.n >= 10000
        THEN 1 ELSE 0

\* a weak label assigned afresh by every record instead of only ever set
WeakLabelOverwrite(g, obj) ==
    LET d == ToNumber(obj.duration_ms)
    IN  IF \/ g.http_5xx > 0
           \/ g.error_level_count > 0
           \/ obj.duration_ms # Null /\ d.ok /\ d.n >= 10000
        THEN 1 ELSE 0

\* a weak label whose duration test is > 10000 instead of >= 10000
WeakLabelStrict(g, obj) ==
    LET d == ToNumber(obj.duration_ms)
        w1 == IF g.http_5xx > 0 \/ g.error_level_count > 0
              THEN 1 ELSE g.weak_label_anomaly
    IN  IF obj.duration_ms # Null /\ d.ok /\ d.n > 10000 THEN 1 ELSE w1

\* lines 123-132: the weak label, evaluated on the accumulator as updated by
\* this record
WeakLabel(g, obj) ==
    LET duration == obj.duration_ms
        d == ToNumber(duration)
        w1 == IF g.http_5xx > 0 \/ g.error_level_count > 0
              THEN 1 ELSE g.weak_label_anomaly
    IN  IF duration # Null /\ d.ok /\ d.n >= 10000 THEN 1 ELSE w1

UpdateGroup(g, obj) ==
    LET g1 == UpdateCounts(g, obj)
    IN  [g1 EXCEPT !.weak_label_anomaly = WeakLabel(g1, obj)]

\* The lines of IN_JSONL: blank, not JSON, a JSON value that is no object,
\* or an object (obj holds what .get() returns for the schema keys).
NullObj == [k \in SchemaKeys |-> Null]

\* what raises while one line is folded (lines 72, 75, 76, 89, 91)
LineRaises(line) ==
    \/ line.kind = "undecodable"                    \* json.loads
    \/ line.kind = "value"                          \* obj.get on a non-dict
    \/ /\ line.kind = "object"
       /\ \/ Or(line.obj.service, Str("unknown")).t = "list"  \* dict key
          \/ /\ parse_ts(line.obj.timestamp).ok
             /\ \/ Truthy(line.obj.event) /\ line.obj.event.t = "list"
                \/ Truthy(line.obj.level) /\ line.obj.level.t # "str"

\* a loop that leaves the loop for an unparseable timestamp before the raw
\* totals are counted
FoldLineCountsParsedOnly(st, line, minutes) ==
    IF line.kind = "blank" THEN st
    ELSE IF LineRaises(line) THEN [st EXCEPT !.raised = TRUE]
    ELSE
      LET obj == line.obj
          service == Or(obj.service, Str("unknown"))
          dt == parse_ts(obj.timestamp)
      IN  IF ~dt.ok THEN st
          ELSE
            LET key == <<service, floor_bucket(dt, minutes)>>
                g == UpdateGroup(GroupAt(st.groups, key), obj)
            IN  [st EXCEPT
                   !.total_rows = @ + 1,
                   !.by_service =
                      [k \in DOMAIN @ \cup {service} |->
                         IF k = service
                         THEN (IF k \in DOMAIN @ THEN @[k] ELSE 0) + 1
                         ELSE @[k]],
                   !.groups =
                      [k \in DOMAIN @ \cup {key} |->
                         IF k = key THEN g ELSE @[k]]]

\* a loop that folds a record into every accumulator of its service
FoldLineIntoService(st, line, minutes) ==
    IF line.kind = "blank" THEN st
    ELSE IF LineRaises(line) THEN [st EXCEPT !.raised = TRUE]
    ELSE
      LET obj == line.obj
          service == Or(obj.service, Str("unknown"))
          dt == parse_ts(obj.timestamp)
          counted ==
            [st EXCEPT
               !.total_rows = @ + 1,
               !.by_service =
                  [k \in DOMAIN @ \cup {service} |->
                     IF k = service
                     THEN (IF k \in DOMAIN @ THEN @[k] ELSE 0) + 1
                     ELSE @[k]]]
      IN  IF ~dt.ok THEN counted
          ELSE
            LET key == <<service, floor_bucket(dt, minutes)>>
            IN  [counted EXCEPT
                   !.groups =
                      [k \in DOMAIN @ \cup {key} |->
                         IF k[1] = service
                         THEN UpdateGroup(GroupAt(st.groups, k), obj)
                         ELSE @[k]]]

\* lines 68-132 for one line, on the loop state st
FoldLine(st, line, minutes) ==
    IF line.kind = "blank" THEN st
    ELSE IF LineRaises(line) THEN [st EXCEPT !.raised = TRUE]
    ELSE
      LET obj == line.obj
          service == Or(obj.service, Str("unknown"))
          dt == parse_ts(obj.timestamp)
          counted ==
            [st EXCEPT
               !.total_rows = @ + 1,
               !.by_service =
                  [k \in DOMAIN @ \cup {service} |->
                     IF k = service
                     THEN (IF k \in DOMAIN @ THEN @[k] ELSE 0) + 1
                     ELSE @[k]]]
      IN  IF ~dt.ok THEN counted
          ELSE
            LET key == <<service, floor_bucket(dt, minutes)>>
                g == UpdateGroup(GroupAt(st.groups, key), obj)
            IN  [counted EXCEPT
                   !.groups =
                      [k \in DOMAIN @ \cup {key} |->
                         IF k = key THEN g ELSE @[k]]]

LoopStart ==
    [groups |-> EmptyMap, total_rows |-> 0, by_service |-> EmptyMap,
     raised |-> FALSE]

RECURSIVE FoldFrom(_, _, _)
\* the whole loop over a file
FoldFrom(st, lines, minutes) ==
    IF lines = <<>> \/ st.raised THEN st
    ELSE FoldFrom(FoldLine(st, Head(lines), minutes), Tail(lines), minutes)

---------------------------------------------------------------------------
(* build_features.py: finalisation of the accumulators into rows.          *)

\* round(num / den, 6) as a whole part and millionths; half goes to even
Round6(num, den) ==
    LET a == (num % den) * 1000000
        q == a \div den
        r == a % den
        m == IF 2 * r < den THEN q
             ELSE IF 2 * r > den THEN q + 1
             ELSE IF q % 2 = 0 THEN q ELSE q + 1
    IN  [whole |-> num \div den, micro |-> m]

Zero6 == [whole |-> 0, micro |-> 0]

RECURSIVE SumSeq(_)
SumSeq(q) == IF q = <<>> THEN 0 ELSE Head(q) + SumSeq(Tail(q))

MaxSeq(q) == CHOOSE x \in {q[i] : i \in DOMAIN q} :
                \A y \in {q[i] : i \in DOMAIN q} : y <= x

\* an interpolation with the weights of the two neighbours exchanged
PercentileSwappedWeights(values, pct) ==
    IF values = <<>> THEN Zero6
    ELSE
      LET sorted == SortSeq(values, LAMBDA a, b : a < b)
          k100 == (Len(sorted) - 1) * pct
          f == k100 \div 100
          c == IF k100 % 100 = 0 THEN f ELSE f + 1
      IN  IF f = c THEN Round6(sorted[f + 1], 1)
          ELSE Round6(sorted[f + 1] * (k100 - 100 * f)
                        + sorted[c + 1] * (100 * c - k100), 100)

\* percentile(values, pct / 100): rank k = (n - 1) * pct / 100 in the sorted
\* list; the element at k when k is integral, else the two neighbours
\* weighted by the fractional part.  The result is in hundredths.
percentile(values, pct) ==
    IF values = <<>> THEN Zero6
    ELSE
      LET sorted == SortSeq(values, LAMBDA a, b : a < b)
          k100 == (Len(sorted) - 1) * pct
          f == k100 \div 100
          c == IF k100 % 100 = 0 THEN f ELSE f + 1
      IN  IF f = c THEN Round6(sorted[f + 1], 1)
          ELSE Round6(sorted[f + 1] * (100 * c - k100)
                        + sorted[c + 1] * (k100 - 100 * f), 100)

\* lines 151-182: one row
FeatureRow(service, bucket, g) ==
    LET durations == g.durations
        total == IF g.total_logs # 0 THEN g.total_logs ELSE 1
        http_completed == g.http_completed
    IN  [service |-> service.s,
         bucket |-> isoformat(bucket),
         total_logs |-> g.total_logs,
         unique_events |-> Cardinality(g.events),
         error_level_count |-> g.error_level_count,
         http_received |-> g.http_received,
         http_completed |-> g.http_completed,
         status_present |-> g.status_present,
         duration_present |-> g.duration_present,
         http_4xx |-> g.http_4xx,
         http_5xx |-> g.http_5xx,
         duration_mean |->
            IF durations # <<>>
            THEN Round6(SumSeq(durations), Len(durations)) ELSE Zero6,
         duration_p95 |->
            IF durations # <<>> THEN percentile(durations, 95) ELSE Zero6,
         duration_max |->
            IF durations # <<>> THEN Round6(MaxSeq(durations), 1) ELSE Zero6,
         error_rate |-> Round6(g.error_level_count, total),
         http_4xx_rate |->
            IF http_completed # 0 THEN Round6(g.http_4xx, http_completed)
            ELSE Zero6,
         http_5xx_rate |->
            IF http_completed # 0 THEN Round6(g.http_5xx, http_completed)
            ELSE Zero6,
         weak_label_anomaly |-> g.weak_label_anomaly]

\* the order of Python's str comparison on the service names of the model
ServiceRank(s) ==
    CASE s = "delivery-service" -> 1
      [] s = "svc-a" -> 2
      [] s = "svc-b" -> 3
      [] s = "unknown" -> 4
      [] s = "unknown-service" -> 5
      [] s = "users-service" -> 6
      [] OTHER -> 0

KeyLE(a, b) ==
    \/ ServiceRank(a[1].s) < ServiceRank(b[1].s)
    \/ ServiceRank(a[1].s) = ServiceRank(b[1].s) /\ a[2] <= b[2]

RECURSIVE SortedKeys(_)
SortedKeys(K) ==
    IF K = {} THEN <<>>
    ELSE LET m == CHOOSE k \in K : \A o \in K : KeyLE(k, o)
         IN  <<m>> \o SortedKeys(K \ {m})

\* rows grouped by service alone: only the first bucket of a service is kept
RowsFirstBucketOnly(gs) ==
    LET keys == SortedKeys({k \in DOMAIN gs :
                              \A o \in DOMAIN gs : o[1] = k[1] => k[2] <= o[2]})
    IN  [i \in 1..Len(keys) |-> FeatureRow(keys[i][1], keys[i][2], gs[keys[i]])]

\* lines 149-182: the rows, sorted by (service, bucket)
Rows(gs) ==
    LET keys == SortedKeys(DOMAIN gs)
    IN  [i \in 1..Len(keys) |-> FeatureRow(keys[i][1], keys[i][2], gs[keys[i]])]

---------------------------------------------------------------------------
(* build_features.py: the lines a run may find in IN_JSONL.                *)

Rec(svc, ts, lvl, ev, st, du) ==
    [kind |-> "object",
     obj |-> [NullObj EXCEPT !["service"] = svc, !["timestamp"] = ts,
                             !["level"] = lvl, !["event"] = ev,
                             !["status_code"] = st, !["duration_ms"] = du]]

T1 == Str("2025-01-01T00:00:30Z")
T2 == Str("2025-01-01T00:00:45")
T3 == Str("2025-01-01T00:01:10+00:00")
T4 == Str("2025-01-01T05:30:50+05:30")
SvcA == Str("svc-a")
Completed == Str("http.request.completed")
Received == Str("http.request.received")

\* Seven canonical records (three share a one-minute bucket of svc-a with
\* and without the conditions of the weak label, one is a minute later, one
\* has no service and text-typed numbers, one has no parseable timestamp),
\* a record whose level is a number, and the three kinds of non-record line.
JsonlLines ==
    { Rec(SvcA, T1, Str("ERROR"), Completed, Num(503), Num(12000)),
      Rec(SvcA, T2, Str("INFO"), Completed, Num(200), Num(50)),
      Rec(SvcA, T1, Str("INFO"), Str("app.log"), Num(503), Num(20)),
      Rec(SvcA, T2, Str("INFO"), Str("app.log"), Num(404), Num(10000)),
      Rec(SvcA, T3, Str("error"), Received, Null, Null),
      Rec(Null, T4, Null, Null, Str("n/a"), Str("12000")),
      Rec(SvcA, Str("not-a-time"), Str("ERROR"), Completed, Num(500), Num(99)),
      Rec(SvcA, T1, Num(5), Completed, Num(200), Num(40)),
      [kind |-> "blank", obj |-> NullObj],
      [kind |-> "undecodable", obj |-> NullObj],
      [kind |-> "value", obj |-> NullObj] }

RECURSIVE SeqsUpTo(_, _)
SeqsUpTo(S, n) ==
    IF n = 0 THEN {<<>>}
    ELSE LET shorter == SeqsUpTo(S, n - 1)
         IN  shorter \cup {Append(q, x) : q \in shorter, x \in S}

NoCsv == [written |-> FALSE, rows |-> <<>>]

---------------------------------------------------------------------------
(* build_features.py: main.                                                *)

\* lines 68-132: the loop reads the next line
BF_FoldLine ==
    /\ prog = "build_features" /\ pc = "fold"
    /\ pos <= Len(input)
    /\ LET st == FoldLine([groups |-> groups, total_rows |-> total_rows,
                           by_service |-> by_service, raised |-> FALSE],
                          input[pos], bucket_minutes)
       IN  /\ groups' = st.groups
           /\ total_rows' = st.total_rows
           /\ by_service' = st.by_service
           /\ pc' = IF st.raised THEN "raised" ELSE "fold"
    /\ pos' = pos + 1
    /\ UNCHANGED <<prog, input, bucket_minutes, features, raw, merged_out,
                   report>>
    /\ UNCHANGED allVars
    /\ UNCHANGED <<disk, mlVars, fnVars>>

\* lines 134-191 of build_features(1), then the start of build_features(5)
BF_WriteCsv1 ==
    /\ prog = "build_features" /\ pc = "fold"
    /\ pos > Len(input) /\ bucket_minutes = 1
    /\ features' = [features EXCEPT
                      ![1] = [written |-> TRUE, rows |-> Rows(groups)]]
    /\ bucket_minutes' = 5
    /\ groups' = EmptyMap /\ total_rows' = 0 /\ by_service' = EmptyMap
    /\ pos' = 1
    /\ UNCHANGED <<prog, pc, input, raw, merged_out, report>>
    /\ UNCHANGED allVars
    /\ disk' = [disk EXCEPT !["features_1m.csv"] = "new"]
    /\ UNCHANGED <<mlVars, fnVars>>

\* lines 134-191 of build_features(5), the end of main
BF_WriteCsv5 ==
    /\ prog = "build_features" /\ pc = "fold"
    /\ pos > Len(input) /\ bucket_minutes = 5
    /\ features' = [features EXCEPT
                      ![5] = [written |-> TRUE, rows |-> Rows(groups)]]
    /\ pc' = "done"
    /\ UNCHANGED <<prog, input, pos, bucket_minutes, groups, total_rows,
                   by_service, raw, merged_out, report>>
    /\ UNCHANGED allVars
    /\ disk' = [disk EXCEPT !["features_5m.csv"] = "new"]
    /\ UNCHANGED <<mlVars, fnVars>>

InitBuildFeatures ==
    /\ prog = "build_features" /\ pc = "fold"
    /\ input \in SeqsUpTo(JsonlLines, MaxRecords)
    /\ pos = 1 /\ bucket_minutes = 1
    /\ groups = EmptyMap /\ total_rows = 0 /\ by_service = EmptyMap
    /\ features = [m \in {1, 5} |-> NoCsv]
    /\ raw_files = <<>> /\ file_ix = 0 /\ service_default = ""
    /\ out_file = <<>> /\ raw = <<>> /\ tried = <<>>
    /\ written = 0 /\ skipped = 0 /\ total_written = 0 /\ total_skipped = 0
    /\ merged_out = <<>> /\ report = EmptyMap
    /\ disk = [f \in {"features_1m.csv", "features_5m.csv"} |-> "absent"]
    /\ df_bucket = <<>> /\ pass_pc = NoPasses
    /\ call = NoCall /\ result = NoResult

---------------------------------------------------------------------------
(* convert_all.py: raw lines.                                              *)
(*                                                                         *)
(* A raw line is given by what the code asks of its text: the substring    *)
(* tests, the result of decoding it, its segments between "|" and the      *)
(* match of the spring pattern.                                            *)

ObjKeys ==
    {"timestamp", "ts", "time", "@timestamp", "service", "svc", "app",
     "level", "lvl", "severity", "event", "ev", "msg", "message",
     "message_type", "msgType", "request_id", "requestId", "session_id",
     "sessionId", "method", "path", "url", "route", "status_code", "status",
     "duration_ms", "durationMs", "latency_ms", "error", "error_message",
     "errorMessage", "err", "error_type", "errorType", "exception", "name",
     "stack", "stacktrace", "trace", "stacktrace_hash"}

PayloadKeys ==
    {"requestId", "request_id", "sessionId", "session_id", "method", "path",
     "status", "status_code", "statusCode", "durationMs", "duration",
     "error", "stack"}

NullDict == [k \in ObjKeys |-> Null]
NullPayload == [k \in PayloadKeys |-> Null]

\* what json.loads makes of a text: nothing (it raises), a value that is no
\* object, or an object
Undecodable == [kind |-> "undecodable", val |-> Null, obj |-> NullPayload]
JsonValue(v) == [kind |-> "value", val |-> v, obj |-> NullPayload]
JsonObject(d) == [kind |-> "object", val |-> Null, obj |-> d]

\* a segment "k=v" of a line split on "|": the text v, what json.loads
\* makes of v, and what it makes of the region re.search(r"(\{.*\})", v)
\* finds (found = FALSE when there is none)
KV(k, v) ==
    [eq |-> TRUE, k |-> k, text |-> v, loads |-> Undecodable,
     region |-> [found |-> FALSE, loads |-> Undecodable]]
Payload(k, loads, region) ==
    [eq |-> TRUE, k |-> k, text |-> "{..}", loads |-> loads,
     region |-> region]
\* a segment without "="
Bare(v) ==
    [eq |-> FALSE, k |-> "", text |-> v, loads |-> Undecodable,
     region |-> [found |-> FALSE, loads |-> Undecodable]]

NoSpring ==
    [ok |-> FALSE, date |-> "", time |-> "", level |-> "", service |-> "",
     message |-> ""]

\* safe_json_loads
safe_json_loads(loads) == loads

\* `safe_json_loads(v) or {}`: a falsy result becomes the empty dict, a
\* truthy one stays what it is, dict or not
OrEmptyDict(p) ==
    IF p.kind = "object" THEN p
    ELSE IF p.kind = "value" /\ Truthy(p.val) THEN p
    ELSE JsonObject(NullPayload)

\* the stack texts of the model: the group of ^([A-Za-z0-9_]+): and the
\* first 12 hex digits of the SHA-1
StackTable ==
    [s \in {"TypeError: x is undefined", "at handler (app.js:1)"} |->
        CASE s = "TypeError: x is undefined" ->
                [etype |-> Str("TypeError"), sha1 |-> "3f1c9a0b7e21"]
          [] s = "at handler (app.js:1)" ->
                [etype |-> Null, sha1 |-> "a07b55d2c9e4"]]

hash_stack(stack) ==
    IF ~Truthy(stack) THEN Null
    ELSE IF stack.s \in DOMAIN StackTable
         THEN Str(StackTable[stack.s].sha1) ELSE Str("000000000000")

ErrorTypeOf(stack) ==
    IF stack.s \in DOMAIN StackTable THEN StackTable[stack.s].etype ELSE Null

Get(obj, k) == IF k \in DOMAIN obj THEN obj[k] ELSE Null

\* a normalize_base that forgets the last key of the schema
NormalizeBaseShort(obj) ==
    [k \in {"timestamp", "service", "level", "event", "request_id",
            "session_id", "method", "path", "status_code", "duration_ms",
            "error_message", "error_type"} |-> Get(obj, k)]

normalize_base(obj) ==
    [timestamp |-> Get(obj, "timestamp"),
     service |-> Get(obj, "service"),
     level |-> Get(obj, "level"),
     event |-> Get(obj, "event"),
     request_id |-> Get(obj, "request_id"),
     session_id |-> Get(obj, "session_id"),
     method |-> Get(obj, "method"),
     path |-> Get(obj, "path"),
     status_code |-> Get(obj, "status_code"),
     duration_ms |-> Get(obj, "duration_ms"),
     error_message |-> Get(obj, "error_message"),
     error_type |-> Get(obj, "error_type"),
     stacktrace_hash |-> Get(obj, "stacktrace_hash")]

\* base.get(k) after the loop over the segments: the text of the last
\* segment with key k
LastText(segs, k) ==
    LET I == {i \in DOMAIN segs : segs[i].eq /\ segs[i].k = k}
    IN  IF I = {} THEN Null
        ELSE Str(segs[CHOOSE i \in I : \A j \in I : j <= i].text)

LastSeg(segs, k) ==
    LET I == {i \in DOMAIN segs : segs[i].eq /\ segs[i].k = k}
    IN  segs[CHOOSE i \in I : \A j \in I : j <= i]

HasSeg(segs, k) == \E i \in DOMAIN segs : segs[i].eq /\ segs[i].k = k

Parsed(rec) == [kind |-> "record", rec |-> rec]
ParsedNone == [kind |-> "none", rec |-> NullObj]
ParseRaised == [kind |-> "raised", rec |-> NullObj]

\* lines 79-83 and 144-148
WithStack(out, stack) ==
    IF stack.t = "str" /\ Truthy(stack)
    THEN [out EXCEPT !.error_type = ErrorTypeOf(stack),
                     !.stacktrace_hash = hash_stack(stack)]
    ELSE out

parse_node_style(line, sd) ==
    LET segs == line.segs
        p == IF HasSeg(segs, "data")
             THEN OrEmptyDict(safe_json_loads(LastSeg(segs, "data").loads))
             ELSE JsonObject(NullPayload)
        data_obj == p.obj
        out == [timestamp |-> LastText(segs, "ts"),
                service |-> Or(LastText(segs, "svc"), Str(sd)),
                level |-> LastText(segs, "level"),
                event |-> LastText(segs, "event"),
                request_id |-> data_obj["requestId"],
                session_id |-> data_obj["sessionId"],
                method |-> data_obj["method"],
                path |-> data_obj["path"],
                status_code |-> data_obj["status"],
                duration_ms |-> data_obj["durationMs"],
                error_message |-> data_obj["error"],
                error_type |-> Null,
                stacktrace_hash |-> Null]
    IN  IF p.kind # "object" THEN ParseRaised   \* .get of a non-dict
        ELSE Parsed(normalize_base(WithStack(out, data_obj["stack"])))

\* line[line.index("DELIVERY|"):].split("|")
DeliverySegs(line) ==
    <<Bare("DELIVERY")>>
        \o SubSeq(line.segs, line.delivery_at + 1, Len(line.segs))

parse_delivery_style(line, sd) ==
    IF ~line.has_delivery THEN ParsedNone
    ELSE
      LET segs == DeliverySegs(line)
          named == \E i \in DOMAIN segs : ~segs[i].eq /\ segs[i].text = "DELIVERY"
          service == IF named THEN Str("delivery-service") ELSE Str(sd)
          lvl == LastText(segs, "lvl")
          ctx == IF HasSeg(segs, "ctx")
                 THEN LET m == LastSeg(segs, "ctx").region
                      IN  IF m.found THEN OrEmptyDict(safe_json_loads(m.loads))
                          ELSE JsonObject(NullPayload)
                 ELSE JsonObject(NullPayload)
          ctx_obj == ctx.obj
          out == [timestamp |-> LastText(segs, "ts"),
                  service |-> Or(service, Str(sd)),
                  level |-> IF lvl = Null THEN Null ELSE Str(Upper(lvl.s)),
                  event |-> LastText(segs, "ev"),
                  request_id |-> ctx_obj["requestId"],
                  session_id |-> ctx_obj["sessionId"],
                  method |-> ctx_obj["method"],
                  path |-> ctx_obj["path"],
                  status_code |-> Or(ctx_obj["status"], ctx_obj["statusCode"]),
                  duration_ms |-> Or(ctx_obj["durationMs"], ctx_obj["duration"]),
                  error_message |-> ctx_obj["error"],
                  error_type |-> Null,
                  stacktrace_hash |-> Null]
      IN  IF ctx.kind # "object" THEN ParseRaised
          ELSE Parsed(normalize_base(WithStack(out, ctx_obj["stack"])))

parse_spring_style(line, sd) ==
    LET m == line.spring
    IN  IF ~m.ok THEN ParsedNone
        ELSE Parsed(normalize_base(
               [timestamp |-> Str(m.date \o "T" \o m.time),
                service |-> Or(Str(m.service), Str(sd)),
                level |-> Str(m.level),
                event |-> Str("app.log"),
                request_id |-> Null, session_id |-> Null,
                method |-> Null, path |-> Null,
                status_code |-> Null, duration_ms |-> Null,
                error_message |-> Str(m.message),
                error_type |-> Null, stacktrace_hash |-> Null]))

\* an is_valid that tests `is not None` where the code tests truth
IsValidNotNone(obj) ==
    /\ obj.timestamp # Null
    /\ obj.service # Null
    /\ obj.event # Null \/ obj.level # Null \/ obj.error_message # Null

is_valid(obj) ==
    /\ Truthy(obj.timestamp)
    /\ Truthy(obj.service)
    /\ Truthy(obj.event) \/ Truthy(obj.level) \/ Truthy(obj.error_message)

\* lines 202-220: the record of a line that is a JSON object
JsonRecord(obj, sd) ==
    LET level == Or(obj["level"], obj["lvl"])
    IN  normalize_base(
          [timestamp |-> Or(obj["timestamp"], Or(obj["ts"], obj["time"])),
           service |-> Or(obj["service"], Or(obj["svc"], Str(sd))),
           level |-> IF level.t = "str" THEN Str(Upper(level.s)) ELSE level,
           event |-> Or(obj["event"],
                        Or(obj["ev"], Or(obj["msg"], obj["message"]))),
           request_id |-> Or(obj["request_id"], obj["requestId"]),
           session_id |-> Or(obj["session_id"], obj["sessionId"]),
           method |-> obj["method"],
           path |-> Or(obj["path"], obj["url"]),
           status_code |-> Or(obj["status_code"], obj["status"]),
           duration_ms |-> Or(obj["duration_ms"], obj["durationMs"]),
           error_message |-> Or(obj["error"], obj["error_message"]),
           error_type |-> obj["error_type"],
           stacktrace_hash |-> obj["stacktrace_hash"]])

\* the tests by which parse_any hands a line to a matcher
AcceptsJson(line) == line.braced /\ safe_json_loads(line.json).kind = "object"
AcceptsNode(line) == line.has_svc_eq /\ line.has_pipe_event
AcceptsDelivery(line) == line.has_delivery
AcceptsSpring(line) == line.spring.ok

\* a parse_any for which a line in braces is a JSON line or nothing
ParseAnyBracedIsJsonOnly(line, sd) ==
    IF line.blank THEN [res |-> ParsedNone, tried |-> <<>>]
    ELSE IF line.braced
    THEN [res |-> IF AcceptsJson(line)
                  THEN Parsed(JsonRecord(line.json.obj, sd)) ELSE ParsedNone,
          tried |-> <<"json">>]
    ELSE IF AcceptsNode(line)
    THEN [res |-> parse_node_style(line, sd), tried |-> <<"json", "node">>]
    ELSE IF AcceptsDelivery(line)
    THEN [res |-> parse_delivery_style(line, sd),
          tried |-> <<"json", "node", "delivery">>]
    ELSE [res |-> parse_spring_style(line, sd),
          tried |-> <<"json", "node", "delivery", "spring">>]

\* a parse_any that looks for DELIVERY| before it looks for svc= and | event=
ParseAnyDeliveryFirst(line, sd) ==
    IF line.blank THEN [res |-> ParsedNone, tried |-> <<>>]
    ELSE IF AcceptsJson(line)
    THEN [res |-> Parsed(JsonRecord(line.json.obj, sd)), tried |-> <<"json">>]
    ELSE IF AcceptsDelivery(line)
    THEN [res |-> parse_delivery_style(line, sd),
          tried |-> <<"json", "delivery">>]
    ELSE IF AcceptsNode(line)
    THEN [res |-> parse_node_style(line, sd),
          tried |-> <<"json", "delivery", "node">>]
    ELSE [res |-> parse_spring_style(line, sd),
          tried |-> <<"json", "delivery", "node", "spring">>]

\* parse_any: the result and the matchers whose test it evaluated
parse_any(line, sd) ==
    IF line.blank THEN [res |-> ParsedNone, tried |-> <<>>]
    ELSE IF AcceptsJson(line)
    THEN [res |-> Parsed(JsonRecord(line.json.obj, sd)), tried |-> <<"json">>]
    ELSE IF AcceptsNode(line)
    THEN [res |-> parse_node_style(line, sd), tried |-> <<"json", "node">>]
    ELSE IF AcceptsDelivery(line)
    THEN [res |-> parse_delivery_style(line, sd),
          tried |-> <<"json", "node", "delivery">>]
    ELSE [res |-> parse_spring_style(line, sd),
          tried |-> <<"json", "node", "delivery", "spring">>]

---------------------------------------------------------------------------
(* convert_all.py: the raw lines a run may read.                           *)

PlainLine ==
    [blank |-> FALSE, braced |-> FALSE, json |-> Undecodable,
     has_svc_eq |-> FALSE, has_pipe_event |-> FALSE, has_delivery |-> FALSE,
     delivery_at |-> 0, segs |-> <<Bare("text")>>, spring |-> NoSpring]

JsonLine(d) ==
    [PlainLine EXCEPT !.braced = TRUE, !.json = JsonObject(d),
                      !.segs = <<Bare("{..}")>>]

NodeLine(segs) ==
    [PlainLine EXCEPT !.has_svc_eq = TRUE, !.has_pipe_event = TRUE,
                      !.segs = segs]

DeliveryLine(segs, at) ==
    [PlainLine EXCEPT !.has_delivery = TRUE, !.delivery_at = at,
                      !.segs = segs]

Ctx(d) == Payload("ctx", JsonObject(d), [found |-> TRUE, loads |-> JsonObject(d)])
Data(loads) == Payload("data", loads, [found |-> FALSE, loads |-> Undecodable])

\* the text after a JSON object in the value of ctx=, as tokens: "x" is
\* text without a brace or a bar
Trailings == {<<"x">>, <<"x", "}">>, <<"|", "x">>, <<"|", "x", "}">>}

RECURSIVE UpToBar(_)
\* split("|"): the tokens before the first bar
UpToBar(t) ==
    IF t = <<>> \/ Head(t) = "|" THEN <<>>
    ELSE <<Head(t)>> \o UpToBar(Tail(t))

\* split("|"): how many segments follow the first one
Bars(t) == Cardinality({i \in DOMAIN t : t[i] = "|"})

\* split("|"): the text of a segment after the first one
TextAfterBar(t) ==
    IF \E i, j \in DOMAIN t : t[i] = "|" /\ t[j] = "}" /\ i < j
    THEN "x}" ELSE "x"

\* re.search(r"(\{.*\})", v): from the first { of v to its last }
GreedyRegion(v) ==
    LET open == {i \in DOMAIN v : v[i] = "{"}
        first == CHOOSE i \in open : \A j \in open : i <= j
        close == {i \in DOMAIN v : v[i] = "}" /\ open # {} /\ i > first}
        last == CHOOSE i \in close : \A j \in close : j <= i
    IN  IF open = {} \/ close = {} THEN <<>> ELSE SubSeq(v, first, last)

\* json.loads of tokens: an object when they are one object and no more
LoadsTokens(v, d) ==
    IF v = <<"{", "obj", "}">> THEN JsonObject(d) ELSE Undecodable

\* the segment ctx=<object d><text t up to the first bar>
CtxText(d, t) ==
    LET v == <<"{", "obj", "}">> \o UpToBar(t)
    IN  Payload("ctx", LoadsTokens(v, d),
                [found |-> GreedyRegion(v) # <<>>,
                 loads |-> LoadsTokens(GreedyRegion(v), d)])

CtxFields ==
    [NullPayload EXCEPT !["requestId"] = Str("abc"), !["status"] = Num(201),
                        !["durationMs"] = Num(12)]

\* DELIVERY|ts=...|ev=delivery.created|ctx={"requestId":"abc","status":201,
\* "durationMs":12}<text t>
TrailingCtxLine(t) ==
    DeliveryLine(<<Bare("DELIVERY"), KV("ts", "2025-01-01T00:00:00Z"),
                   KV("ev", "delivery.created"), CtxText(CtxFields, t)>>
                 \o [i \in 1..Bars(t) |-> Bare(TextAfterBar(t))], 1)

SpringMatch ==
    [ok |-> TRUE, date |-> "2025-12-27", time |-> "12:03:41.029",
     level |-> "INFO", service |-> "users-service", message |-> "Started"]

RawLines ==
    { \* {"timestamp": ..., "service": "svc-a", "level": "error", ...}
      JsonLine([NullDict EXCEPT
                  !["timestamp"] = T1, !["service"] = SvcA,
                  !["level"] = Str("error"), !["event"] = Completed,
                  !["status_code"] = Num(503), !["duration_ms"] = Num(12000)]),
      \* {"ts": ..., "svc": "orders", "lvl": "warn", "msg": "DELIVERY|late",
      \*  "requestId": "r2", "status": 404, "durationMs": 20}
      [JsonLine([NullDict EXCEPT
                  !["ts"] = T2, !["svc"] = Str("orders"),
                  !["lvl"] = Str("warn"), !["msg"] = Str("DELIVERY|late"),
                  !["requestId"] = Str("r2"), !["status"] = Num(404),
                  !["durationMs"] = Num(20)])
         EXCEPT !.has_delivery = TRUE, !.delivery_at = 1,
                !.segs = <<Bare("{.. DELIVERY"), Bare("late ..}")>>],
      \* {"timestamp": ..., "service": "svc-a", "event": ...,
      \*  "status_code": 0, "duration_ms": 0, "durationMs": 20}
      JsonLine([NullDict EXCEPT
                  !["timestamp"] = T1, !["service"] = SvcA,
                  !["event"] = Completed, !["status_code"] = Num(0),
                  !["duration_ms"] = Num(0), !["durationMs"] = Num(20)]),
      \* {}
      JsonLine(NullDict),
      \* {not json}
      [PlainLine EXCEPT !.braced = TRUE],
      \* {svc=orders | ts=... | event=tick}
      [NodeLine(<<KV("{svc", "orders"), KV("ts", "2025-01-01T00:00:30Z"),
                  KV("event", "tick}")>>)
         EXCEPT !.braced = TRUE],
      \* {DELIVERY|ts=...|ev=delivery.created}
      [DeliveryLine(<<Bare("{DELIVERY"), KV("ts", "2025-01-01T00:00:00Z"),
                      KV("ev", "delivery.created}")>>, 1)
         EXCEPT !.braced = TRUE],
      \* svc=orders | level=info | ts=... | event=order.failed | data={...}
      NodeLine(<<KV("svc", "orders"), KV("level", "info"),
                 KV("ts", "2025-01-01T00:00:30Z"),
                 KV("event", "order.failed"),
                 Data(JsonObject([NullPayload EXCEPT
                        !["requestId"] = Str("r1"), !["status"] = Num(500),
                        !["durationMs"] = Num(12), !["error"] = Str("boom"),
                        !["stack"] = Str("TypeError: x is undefined")]))>>),
      \* svc=orders | ts=... | event=order.failed | data={"error": ""}
      NodeLine(<<KV("svc", "orders"), KV("ts", "2025-01-01T00:00:30Z"),
                 KV("event", "order.failed"),
                 Data(JsonObject([NullPayload EXCEPT
                        !["error"] = Str("")]))>>),
      \* xsvc=1 | ts=... | event=tick | data=oops
      NodeLine(<<KV("xsvc", "1"), KV("ts", "2025-01-01T00:00:45"),
                 KV("event", "tick"), Data(Undecodable)>>),
      \* svc=orders | event=tick | data=[1]
      NodeLine(<<KV("svc", "orders"), KV("event", "tick"),
                 Data(JsonValue(Lst(1)))>>),
      \* svc=orders | ts= | event=tick
      NodeLine(<<KV("svc", "orders"), KV("ts", ""), KV("event", "tick")>>),
      \* svc=gw | event=fwd | DELIVERY|ts=...|ev=delivery.created
      [NodeLine(<<KV("svc", "gw"), KV("event", "fwd"), Bare("DELIVERY"),
                  KV("ts", "2025-01-01T00:00:30Z"),
                  KV("ev", "delivery.created")>>)
         EXCEPT !.has_delivery = TRUE, !.delivery_at = 3],
      \* DELIVERY|ts=...|lvl=info|ev=delivery.created|ctx={"requestId":"abc","status":201}
      DeliveryLine(<<Bare("DELIVERY"), KV("ts", "2025-01-01T00:00:00Z"),
                     KV("lvl", "info"), KV("ev", "delivery.created"),
                     Ctx([NullPayload EXCEPT !["requestId"] = Str("abc"),
                                             !["status"] = Num(201)])>>, 1),
      \* DELIVERY|ts=...|ev=delivery.created|ctx=oops
      DeliveryLine(<<Bare("DELIVERY"), KV("ts", "2025-01-01T00:00:00Z"),
                     KV("ev", "delivery.created"),
                     Payload("ctx", Undecodable,
                             [found |-> FALSE, loads |-> Undecodable])>>, 1),
      \* DELIVERY|ts=...|ev=delivery.created|ctx={oops}
      DeliveryLine(<<Bare("DELIVERY"), KV("ts", "2025-01-01T00:00:00Z"),
                     KV("ev", "delivery.created"),
                     Payload("ctx", Undecodable,
                             [found |-> TRUE, loads |-> Undecodable])>>, 1),
      \* 2025-12-27 12:03:41.029 INFO  [users-service] [main] com.x.Y - Started
      [PlainLine EXCEPT !.spring = SpringMatch],
      \* 2025-12-27 12:03:41.029 INFO  [users-service] [main] com.x.Y - sent DELIVERY|now
      [DeliveryLine(<<Bare(".. - sent DELIVERY"), Bare("now")>>, 1)
         EXCEPT !.spring = [SpringMatch EXCEPT !.message = "sent DELIVERY|now"]],
      \* a line of no format
      PlainLine,
      \* an empty line
      [PlainLine EXCEPT !.blank = TRUE, !.segs = <<Bare("")>>] }
    \cup {TrailingCtxLine(t) : t \in Trailings}

\* the stems of RAW_DIR's *.log files, in sorted() order
Stems == <<"delivery", "orders", "users-service">>

RECURSIVE Pick(_, _)
\* the stems at the indices I, in order
Pick(I, i) ==
    IF i > Len(Stems) THEN <<>>
    ELSE (IF i \in I THEN <<Stems[i]>> ELSE <<>>) \o Pick(I, i + 1)

---------------------------------------------------------------------------
(* convert_all.py: main.                                                   *)

\* lines 236-240: MERGED_OUT is removed if it exists, the totals are zero
CA_Unlink ==
    /\ prog = "convert_all" /\ pc = "start"
    /\ disk' = [disk EXCEPT !["MERGED_OUT"] =
                               IF @ = "old" THEN "deleted" ELSE @]
    /\ pc' = "files"
    /\ UNCHANGED <<prog, raw, merged_out, report>>
    /\ UNCHANGED <<allVars, aggVars, mlVars, fnVars>>

\* lines 243-251: the next raw file is opened
CA_OpenFile ==
    /\ prog = "convert_all" /\ pc = "files"
    /\ file_ix < Len(raw_files)
    /\ file_ix' = file_ix + 1
    /\ service_default' = raw_files[file_ix + 1]
    /\ out_file' = <<>>
    /\ written' = 0 /\ skipped' = 0
    /\ pc' = "lines"
    /\ UNCHANGED <<prog, raw_files, raw, tried, total_written, total_skipped,
                   merged_out, report>>
    /\ UNCHANGED aggVars
    /\ disk' = [disk EXCEPT !["out_file"] = "new", !["MERGED_OUT"] = "new"]
    /\ UNCHANGED <<mlVars, fnVars>>

\* a loop that hands every parse result to is_valid, None included
OutcomeWithoutNoneTest(line, sd) ==
    LET p == parse_any(line, sd)
    IN  [tried |-> p.tried,
         rec |-> p.res.rec,
         what |-> IF p.res.kind = "raised" \/ p.res.kind = "none"
                  THEN "raised"
                  ELSE IF ~is_valid(p.res.rec) THEN "skipped" ELSE "written"]

\* what lines 254-262 do with one line: the parse, and whether the line is
\* written, skipped or ends the run with an exception
Outcome(line, sd) ==
    LET p == parse_any(line, sd)
    IN  [tried |-> p.tried,
         rec |-> p.res.rec,
         what |-> IF p.res.kind = "raised" THEN "raised"
                  ELSE IF p.res.kind = "none" \/ ~is_valid(p.res.rec)
                  THEN "skipped" ELSE "written"]

\* lines 253-262: one line of the open file
CA_Line ==
    /\ prog = "convert_all" /\ pc = "lines"
    /\ Len(raw) < MaxLines
    /\ \E line \in RawLines :
         LET o == Outcome(line, service_default)
         IN  /\ raw' = Append(raw, line)
             /\ tried' = o.tried
             /\ pc' = IF o.what = "raised" THEN "raised" ELSE "lines"
             /\ skipped' = IF o.what = "skipped" THEN skipped + 1 ELSE skipped
             /\ written' = IF o.what = "written" THEN written + 1 ELSE written
             /\ out_file' = IF o.what = "written"
                            THEN Append(out_file, o.rec) ELSE out_file
             /\ merged_out' = IF o.what = "written"
                              THEN Append(merged_out, o.rec) ELSE merged_out
    /\ UNCHANGED <<prog, raw_files, file_ix, service_default, total_written,
                   total_skipped, report>>
    /\ UNCHANGED aggVars
    /\ UNCHANGED <<disk, mlVars, fnVars>>

\* lines 264-266: the end of the open file
CA_CloseFile ==
    /\ prog = "convert_all" /\ pc = "lines"
    /\ total_written' = total_written + written
    /\ total_skipped' = total_skipped + skipped
    /\ pc' = "files"
    /\ UNCHANGED <<prog, raw_files, file_ix, service_default, out_file, raw,
                   tried, written, skipped, merged_out, report>>
    /\ UNCHANGED aggVars
    /\ UNCHANGED <<disk, mlVars, fnVars>>

\* lines 268-270: no raw file is left
CA_Finish ==
    /\ prog = "convert_all" /\ pc = "files"
    /\ file_ix = Len(raw_files)
    /\ pc' = "done"
    /\ UNCHANGED <<prog, raw, merged_out, report>>
    /\ UNCHANGED allVars
    /\ UNCHANGED aggVars
    /\ UNCHANGED <<disk, mlVars, fnVars>>

\* the start of main: the raw directory holds up to MaxFiles files, the
\* output directory is empty or holds the files of an earlier run
InitConvertAll ==
    /\ prog = "convert_all" /\ pc = "start"
    /\ \E I \in SUBSET (1..Len(Stems)) :
          Cardinality(I) <= MaxFiles /\ raw_files = Pick(I, 1)
    /\ file_ix = 0 /\ service_default = "" /\ out_file = <<>>
    /\ raw = <<>> /\ tried = <<>>
    /\ written = 0 /\ skipped = 0 /\ total_written = 0 /\ total_skipped = 0
    /\ merged_out = <<>> /\ report = EmptyMap
    /\ input = <<>> /\ pos = 1 /\ bucket_minutes = 1
    /\ groups = EmptyMap /\ total_rows = 0 /\ by_service = EmptyMap
    /\ features = [m \in {1, 5} |-> NoCsv]
    /\ disk \in Before({"MERGED_OUT", "out_file"})
    /\ df_bucket = <<>> /\ pass_pc = NoPasses
    /\ call = NoCall /\ result = NoResult

---------------------------------------------------------------------------
(* convert_logs.py.                                                        *)

\* str(x) of the values of the model
StrOf(v) ==
    CASE v.t = "str" -> v.s
      [] v.t = "num" -> (CASE v.n = 5 -> "5" [] v.n = 0 -> "0" [] OTHER -> "n")
      [] v.t = "list" -> "[..]"
      [] OTHER -> "None"

\* the texts without a "T" that one of the two strptime formats of to_iso
\* accepts, and the isoformat() of the result
StrptimeTable ==
    [s \in {"2025-12-27 12:03:41.029", "2025-12-27 12:03:41"} |->
        CASE s = "2025-12-27 12:03:41.029" -> "2025-12-27T12:03:41.029000"
          [] s = "2025-12-27 12:03:41" -> "2025-12-27T12:03:41"]

\* the texts of the model that contain a "T"
ContainsT(s) == s \in DOMAIN IsoTable \/ s = "2025-12-27T12:03:41.029"

to_iso(ts) ==
    IF ts = Null THEN Null
    ELSE LET s == StrOf(ts)
         IN  IF ContainsT(s) THEN Str(s)
             ELSE IF s \in DOMAIN StrptimeTable THEN Str(StrptimeTable[s])
             ELSE Str(s)

safe_int(x) ==
    IF x = Null THEN Null
    ELSE IF ToNumber(x).ok THEN Num(ToNumber(x).n) ELSE Null

safe_float(x) ==
    IF x = Null THEN Null
    ELSE IF ToNumber(x).ok THEN Num(ToNumber(x).n) ELSE Null

\* the first 12 hex digits of the SHA-256 of the stack texts of the model
Sha256Table ==
    [s \in {"TypeError: x is undefined", "at handler (app.js:1)"} |->
        CASE s = "TypeError: x is undefined" -> "9c2e41d07ab3"
          [] s = "at handler (app.js:1)" -> "51f0e6a2b8dd"]

\* lines 67-71
hash_stack256(stack) ==
    IF ~Truthy(stack) THEN Null
    ELSE IF stack.s \in DOMAIN Sha256Table
         THEN Str(Sha256Table[stack.s]) ELSE Str("000000000000")

Or3(a, b, c) == Or(a, Or(b, c))
Or4(a, b, c, d) == Or(a, Or(b, Or(c, d)))

\* the stack text normalize_log hashes
StackOf(obj) == Or3(obj["stack"], obj["stacktrace"], obj["trace"])

\* line 102 raises when hash_stack is reached with a truthy value that has no
\* encode()
NormalizeRaises(line) ==
    /\ ~Truthy(line.obj["stacktrace_hash"])
    /\ Truthy(StackOf(line.obj))
    /\ StackOf(line.obj).t # "str"

\* a normalize_log whose record lacks the derived hash
NormalizeLogShort(line) ==
    [k \in SchemaKeys \ {"stacktrace_hash"} |-> Get(line.obj, k)]

\* lines 73-125 (fallback_service is always None, lines 150-152)
normalize_log(line) ==
    LET obj == line.obj
        ctx == IF line.ctx.isdict THEN line.ctx.obj ELSE NullPayload
        level == Or3(obj["level"], obj["lvl"], obj["severity"])
        error_message == Or4(obj["error_message"], obj["errorMessage"],
                             obj["err"], obj["message"])
        error_type == Or4(obj["error_type"], obj["errorType"],
                          obj["exception"], obj["name"])
    IN  [timestamp |->
            to_iso(Or4(obj["timestamp"], obj["ts"], obj["@timestamp"],
                       obj["time"])),
         service |-> Or4(obj["service"], obj["svc"], obj["app"], Null),
         level |-> IF Truthy(level) THEN Str(Upper(StrOf(level))) ELSE Null,
         event |-> Or4(obj["event"], obj["ev"], obj["message_type"],
                       obj["msgType"]),
         request_id |-> Or4(obj["request_id"], obj["requestId"],
                            ctx["requestId"], ctx["request_id"]),
         session_id |-> Or4(obj["session_id"], obj["sessionId"],
                            ctx["sessionId"], ctx["session_id"]),
         method |-> Or(obj["method"], ctx["method"]),
         path |-> Or3(obj["path"], obj["route"], ctx["path"]),
         status_code |->
            safe_int(Or4(obj["status_code"], obj["status"],
                         ctx["status_code"], ctx["status"])),
         duration_ms |->
            safe_float(Or4(obj["duration_ms"], obj["durationMs"],
                           obj["latency_ms"], ctx["durationMs"])),
         error_message |->
            IF error_message = Null \/ error_message = Str("")
            THEN Null ELSE error_message,
         error_type |->
            IF error_type = Null \/ error_type = Str("")
            THEN Null ELSE error_type,
         stacktrace_hash |->
            Or(obj["stacktrace_hash"], hash_stack256(StackOf(obj)))]

LogLine(d, c) ==
    [kind |-> "object", obj |-> d, ctx |-> [isdict |-> TRUE, obj |-> c]]
NoCtx == [isdict |-> FALSE, obj |-> NullPayload]

\* the lines of the aggregated *.jsonl files of the model
LogLines ==
    { [LogLine([NullDict EXCEPT
                  !["timestamp"] = T1, !["service"] = SvcA,
                  !["level"] = Str("error"), !["event"] = Completed,
                  !["status_code"] = Num(503), !["duration_ms"] = Num(12000)],
               NullPayload) EXCEPT !.ctx = NoCtx],
      LogLine([NullDict EXCEPT
                  !["ts"] = Str("2025-12-27 12:03:41.029"),
                  !["svc"] = Str("orders"), !["severity"] = Str("warn"),
                  !["msgType"] = Str("order.failed"),
                  !["message"] = Str("boom"),
                  !["stack"] = Str("TypeError: x is undefined")],
              [NullPayload EXCEPT !["requestId"] = Str("r1"),
                                  !["status"] = Str("404"),
                                  !["durationMs"] = Num(20)]),
      [LogLine([NullDict EXCEPT
                  !["time"] = Str("not-a-time"), !["error_message"] = Str(""),
                  !["errorType"] = Str(""), !["status"] = Str("n/a")],
               NullPayload) EXCEPT !.ctx = NoCtx],
      [LogLine([NullDict EXCEPT
                  !["timestamp"] = T1, !["service"] = SvcA,
                  !["event"] = Completed, !["status_code"] = Num(0),
                  !["duration_ms"] = Num(0), !["durationMs"] = Num(20)],
               NullPayload) EXCEPT !.ctx = NoCtx],
      [LogLine([NullDict EXCEPT
                  !["timestamp"] = T2, !["service"] = SvcA,
                  !["stack"] = Num(5)],
               NullPayload) EXCEPT !.ctx = NoCtx],
      [LogLine([NullDict EXCEPT
                  !["timestamp"] = T2, !["service"] = Lst(1),
                  !["event"] = Received],
               NullPayload) EXCEPT !.ctx = NoCtx],
      [kind |-> "undecodable", obj |-> NullDict, ctx |-> NoCtx],
      [kind |-> "value", obj |-> NullDict, ctx |-> NoCtx],
      [kind |-> "blank", obj |-> NullDict, ctx |-> NoCtx] }

NewReport ==
    [total_lines |-> 0, written |-> 0, skipped_invalid_json |-> 0,
     skipped_not_object |-> 0, by_service_written |-> EmptyMap,
     by_service_skipped |-> EmptyMap]

Incr(map, k) ==
    [x \in DOMAIN map \cup {k} |->
        IF x = k THEN (IF k \in DOMAIN map THEN map[k] ELSE 0) + 1
        ELSE map[x]]

\* lines 128-146: no raw file is fatal; otherwise the report is set up and
\* OUT_JSONL is opened for writing
CL_Start ==
    /\ prog = "convert_logs" /\ pc = "start"
    /\ IF raw_files = <<>>
       THEN pc' = "failed" /\ UNCHANGED <<report, disk>>
       ELSE /\ pc' = "lines"
            /\ report' = NewReport
            /\ disk' = [disk EXCEPT !["OUT_JSONL"] = "new"]
    /\ UNCHANGED <<prog, raw, merged_out>>
    /\ UNCHANGED <<allVars, aggVars, mlVars, fnVars>>

\* lines 155-177: one line of a raw file
CL_Line ==
    /\ prog = "convert_logs" /\ pc = "lines"
    /\ Len(raw) < MaxLines
    /\ \E line \in LogLines :
         LET counted == [report EXCEPT !.total_lines = @ + 1]
             norm == normalize_log(line)
             svc == Or(norm.service, Str("unknown"))
         IN  /\ raw' = Append(raw, line)
             /\ CASE line.kind = "blank" ->
                       /\ report' = counted
                       /\ UNCHANGED <<pc, merged_out>>
                  [] line.kind = "undecodable" ->
                       /\ report' = [counted EXCEPT
                                       !.skipped_invalid_json = @ + 1]
                       /\ UNCHANGED <<pc, merged_out>>
                  [] line.kind = "value" ->
                       /\ report' = [counted EXCEPT
                                       !.skipped_not_object = @ + 1]
                       /\ UNCHANGED <<pc, merged_out>>
                  [] line.kind = "object" /\ NormalizeRaises(line) ->
                       /\ report' = counted
                       /\ pc' = "raised"
                       /\ UNCHANGED merged_out
                  [] line.kind = "object" /\ ~NormalizeRaises(line)
                        /\ svc.t = "list" ->
                       \* an unhashable service as a key of the report
                       /\ report' = [counted EXCEPT !.written = @ + 1]
                       /\ pc' = "raised"
                       /\ UNCHANGED merged_out
                  [] OTHER ->
                       /\ report' =
                            [counted EXCEPT
                               !.written = @ + 1,
                               !.by_service_written = Incr(@, svc)]
                       /\ merged_out' = Append(merged_out, norm)
                       /\ UNCHANGED pc
    /\ UNCHANGED prog
    /\ UNCHANGED allVars
    /\ UNCHANGED aggVars
    /\ UNCHANGED <<disk, mlVars, fnVars>>

\* lines 179-186: the report is written
CL_WriteReport ==
    /\ prog = "convert_logs" /\ pc = "lines"
    /\ pc' = "done"
    /\ UNCHANGED <<prog, raw, merged_out, report>>
    /\ UNCHANGED allVars
    /\ UNCHANGED aggVars
    /\ disk' = [disk EXCEPT !["REPORT_JSON"] = "new"]
    /\ UNCHANGED <<mlVars, fnVars>>

\* the start of main: RAW_GLOB matches a file or none, the outputs are
\* absent or left by an earlier run
InitConvertLogs ==
    /\ prog = "convert_logs" /\ pc = "start"
    /\ report = EmptyMap
    /\ raw_files \in {<<>>, <<"aggregated">>}
    /\ file_ix = 0 /\ service_default = ""
    /\ out_file = <<>> /\ raw = <<>> /\ tried = <<>>
    /\ written = 0 /\ skipped = 0 /\ total_written = 0 /\ total_skipped = 0
    /\ merged_out = <<>>
    /\ input = <<>> /\ pos = 1 /\ bucket_minutes = 1
    /\ groups = EmptyMap /\ total_rows = 0 /\ by_service = EmptyMap
    /\ features = [m \in {1, 5} |-> NoCsv]
    /\ disk \in Before({"OUT_JSONL", "REPORT_JSON"})
    /\ df_bucket = <<>> /\ pass_pc = NoPasses
    /\ call = NoCall /\ result = NoResult

---------------------------------------------------------------------------
(* anomaly-ml/scripts/build_features.py: the pandas aggregator.            *)
(*                                                                         *)
(* The data frame is the sequence of its rows; the column df["bucket"],    *)
(* which build_window_features writes into the caller's frame, is the      *)
(* variable df_bucket.                                                     *)

\* NaN, and a number
NaN == [ok |-> FALSE, n |-> 0]

\* pd.to_numeric(errors="coerce") of one cell
to_numeric(v) == IF v = Null THEN NaN ELSE ToNumber(v)

\* pd.to_datetime(errors="coerce", utc=True) of one cell: seconds of the
\* instant in UTC (a text without offset is taken as UTC), or NaT
to_datetime(v) ==
    LET dt == parse_ts(v)
    IN  IF dt.ok
        THEN [ok |-> TRUE, n |-> dt.wall - (IF dt.aware THEN dt.off ELSE 0) * 60]
        ELSE NaN

\* lines 45-58: the cleaned cells and the flags of one row
CleanRow(obj) ==
    LET status == to_numeric(obj.status_code)
        level == IF obj.level = Null THEN "UNKNOWN" ELSE Upper(obj.level.s)
        event == IF obj.event = Null THEN "unknown.event" ELSE obj.event.s
    IN  [timestamp_dt |-> to_datetime(obj.timestamp),
         service |-> IF obj.service = Null THEN Str("unknown-service")
                     ELSE obj.service,
         level |-> level,
         event |-> event,
         status_code |-> status,
         duration_ms |-> to_numeric(obj.duration_ms),
         is_error_level |-> IF level = "ERROR" THEN 1 ELSE 0,
         is_http_completed |->
            IF event = "http.request.completed" THEN 1 ELSE 0,
         is_http_received |->
            IF event = "http.request.received" THEN 1 ELSE 0,
         is_5xx |-> IF status.ok /\ status.n >= 500 /\ status.n < 600
                    THEN 1 ELSE 0,
         is_4xx |-> IF status.ok /\ status.n >= 400 /\ status.n < 500
                    THEN 1 ELSE 0]

RECURSIVE read_jsonl(_)
\* lines 17-62: blank and undecodable lines are skipped, rows without a
\* valid timestamp are dropped
read_jsonl(lines) ==
    IF lines = <<>> THEN <<>>
    ELSE LET line == Head(lines)
             rest == read_jsonl(Tail(lines))
         IN  IF line.kind = "object"
                  /\ to_datetime(line.obj.timestamp).ok
             THEN <<CleanRow(line.obj)>> \o rest
             ELSE rest

\* Series.dt.floor of a window of the given minutes
dt_floor(secs, minutes) == (secs \div (minutes * 60)) * (minutes * 60)

\* line 71: the column of buckets of a window
BucketColumn(df, minutes) ==
    [i \in DOMAIN df |-> dt_floor(df[i].timestamp_dt.n, minutes)]

RECURSIVE CountOf(_, _, _)
\* the sum of a 0/1 column over the rows of a group
CountOf(df, I, col) ==
    IF I = {} THEN 0
    ELSE LET i == CHOOSE x \in I : TRUE
         IN  df[i][col] + CountOf(df, I \ {i}, col)

RECURSIVE DurationsOf(_, _)
\* the durations of a group that are numbers, in row order
DurationsOf(df, I) ==
    IF I = {} THEN <<>>
    ELSE LET i == CHOOSE x \in I : \A y \in I : x <= y
             rest == DurationsOf(df, I \ {i})
         IN  IF df[i].duration_ms.ok THEN <<df[i].duration_ms.n>> \o rest
             ELSE rest

\* a quotient that is 0.0 where pandas has NaN
Ratio(num, den) == IF den = 0 THEN [num |-> 0, den |-> 1]
                   ELSE [num |-> num, den |-> den]

\* np.nanpercentile(x, pct): linear interpolation, in hundredths
nanpercentile(x, pct) ==
    LET sorted == SortSeq(x, LAMBDA a, b : a < b)
        k100 == (Len(sorted) - 1) * pct
        f == k100 \div 100
        c == IF k100 % 100 = 0 THEN f ELSE f + 1
    IN  100 * sorted[f + 1]
          + (k100 - 100 * f) * (sorted[c + 1] - sorted[f + 1])

\* lines 82-114: the features of one group
GroupFeatures(df, key, I) ==
    LET durations == DurationsOf(df, I)
        error_level_count == CountOf(df, I, "is_error_level")
        http_completed == CountOf(df, I, "is_http_completed")
        http_4xx == CountOf(df, I, "is_4xx")
        http_5xx == CountOf(df, I, "is_5xx")
    IN  [service |-> key[1].s,
         bucket |-> key[2],
         total_logs |-> Cardinality(I),
         unique_events |-> Cardinality({df[i].event : i \in I}),
         error_level_count |-> error_level_count,
         http_received |-> CountOf(df, I, "is_http_received"),
         http_completed |-> http_completed,
         status_present |->
            Cardinality({i \in I : df[i].status_code.ok}),
         duration_present |-> Len(durations),
         http_4xx |-> http_4xx,
         http_5xx |-> http_5xx,
         duration_mean |-> Ratio(SumSeq(durations), Len(durations)),
         duration_p95 |->
            IF durations = <<>> THEN Ratio(0, 0)
            ELSE Ratio(nanpercentile(durations, 95), 100),
         duration_max |->
            IF durations = <<>> THEN 0 ELSE MaxSeq(durations),
         error_rate |-> Ratio(error_level_count, Cardinality(I)),
         http_4xx_rate |-> Ratio(http_4xx, http_completed),
         http_5xx_rate |-> Ratio(http_5xx, http_completed),
         weak_label_anomaly |->
            IF http_5xx > 0 \/ error_level_count > 0 THEN 1 ELSE 0]

\* lines 74-118 on a frame whose bucket column is col
GroupedFeatures(df, col) ==
    LET keyOf(i) == <<df[i].service, col[i]>>
        keys == SortedKeys({keyOf(i) : i \in DOMAIN df})
    IN  [k \in 1..Len(keys) |->
            GroupFeatures(df, keys[k],
                          {i \in DOMAIN df : keyOf(i) = keys[k]})]

\* build_window_features on a frame of its own
build_window_features(df, minutes) ==
    GroupedFeatures(df, BucketColumn(df, minutes))

\* the lines a run may find in PROCESSED_LOGS
MlLines ==
    { Rec(SvcA, T1, Str("ERROR"), Completed, Num(503), Num(12000)),
      Rec(SvcA, T1, Str("INFO"), Str("app.log"), Num(404), Num(10000)),
      Rec(SvcA, T3, Str("error"), Received, Null, Null),
      Rec(Null, T4, Null, Null, Str("n/a"), Str("12000")),
      Rec(SvcA, Str("not-a-time"), Str("ERROR"), Completed, Num(500), Num(99)),
      [kind |-> "blank", obj |-> NullObj],
      [kind |-> "undecodable", obj |-> NullObj] }

MlFiles == {"PROCESSED_LOGS", "features_1m.csv", "features_5m.csv"}

CsvName(w) == IF w = 1 THEN "features_1m.csv" ELSE "features_5m.csv"

\* lines 122-127: a missing PROCESSED_LOGS is fatal; otherwise it is read
ML_Start ==
    /\ prog = "build_features_ml" /\ pc = "start"
    /\ pc' = IF disk["PROCESSED_LOGS"] = "absent" THEN "failed" ELSE "passes"
    /\ UNCHANGED <<prog, raw, merged_out, report, disk>>
    /\ UNCHANGED <<aggVars, allVars, mlVars, fnVars>>

\* line 71 of a pass; main starts the five-minute pass after the
\* one-minute pass has written
ML_Bucket ==
    /\ prog = "build_features_ml" /\ pc = "passes"
    /\ \E w \in {1, 5} :
         /\ pass_pc[w] = "idle"
         /\ w = 5 => pass_pc[1] = "done"
         /\ df_bucket' = BucketColumn(read_jsonl(input), w)
         /\ pass_pc' = [pass_pc EXCEPT ![w] = "bucketed"]
    /\ UNCHANGED <<prog, pc, raw, merged_out, report, disk>>
    /\ UNCHANGED <<aggVars, allVars, fnVars>>

\* line 71 of a pass, the passes started in any order on the frame they
\* share
MLC_Bucket ==
    /\ prog = "build_features_ml" /\ pc = "passes"
    /\ \E w \in {1, 5} :
         /\ pass_pc[w] = "idle"
         /\ df_bucket' = BucketColumn(read_jsonl(input), w)
         /\ pass_pc' = [pass_pc EXCEPT ![w] = "bucketed"]
    /\ UNCHANGED <<prog, pc, raw, merged_out, report, disk>>
    /\ UNCHANGED <<aggVars, allVars, fnVars>>

\* lines 74-118 of the pass of w minutes, and lines 132-133 of main
ML_Aggregate ==
    /\ prog = "build_features_ml" /\ pc = "passes"
    /\ \E w \in {1, 5} :
         /\ pass_pc[w] = "bucketed"
         /\ features' =
               [features EXCEPT
                  ![w] = [written |-> TRUE,
                          rows |-> GroupedFeatures(read_jsonl(input),
                                                   df_bucket)]]
         /\ disk' = [disk EXCEPT ![CsvName(w)] = "new"]
         /\ pass_pc' = [pass_pc EXCEPT ![w] = "done"]
    /\ UNCHANGED <<prog, pc, input, pos, bucket_minutes, groups, total_rows,
                   by_service, raw, merged_out, report, df_bucket>>
    /\ UNCHANGED <<allVars, fnVars>>

\* line 136
ML_Finish ==
    /\ prog = "build_features_ml" /\ pc = "passes"
    /\ \A w \in {1, 5} : pass_pc[w] = "done"
    /\ pc' = "done"
    /\ UNCHANGED <<prog, raw, merged_out, report, disk>>
    /\ UNCHANGED <<aggVars, allVars, mlVars, fnVars>>

\* the start of main: PROCESSED_LOGS is missing or holds up to MaxRecords
\* lines, the CSV files are absent or left by an earlier run
InitMl ==
    /\ prog = "build_features_ml" /\ pc = "start"
    /\ \E pl \in {"absent", "old"}, csv \in {"absent", "old"} :
          disk = [f \in MlFiles |-> IF f = "PROCESSED_LOGS" THEN pl ELSE csv]
    /\ input \in SeqsUpTo(MlLines, MaxRecords)
    /\ disk["PROCESSED_LOGS"] = "absent" => input = <<>>
    /\ df_bucket = <<>> /\ pass_pc = [w \in {1, 5} |-> "idle"]
    /\ pos = 1 /\ bucket_minutes = 1
    /\ groups = EmptyMap /\ total_rows = 0 /\ by_service = EmptyMap
    /\ features = [m \in {1, 5} |-> NoCsv]
    /\ raw_files = <<>> /\ file_ix = 0 /\ service_default = ""
    /\ out_file = <<>> /\ raw = <<>> /\ tried = <<>>
    /\ written = 0 /\ skipped = 0 /\ total_written = 0 /\ total_skipped = 0
    /\ merged_out = <<>> /\ report = EmptyMap
    /\ call = NoCall /\ result = NoResult

---------------------------------------------------------------------------
(* percentile and floor_bucket applied on their own.                       *)

DurationValues == {10, 20, 30, 40, 50}

PercentileCalls ==
    {[NoCall EXCEPT !.fn = "percentile", !.values = v, !.pct = p] :
        v \in SeqsUpTo(DurationValues, MaxDurations), p \in {50, 95}}

\* datetimes around the epoch: with and without half a second, naive or
\* with an offset of 0 or of +00:01
BucketCalls ==
    {[NoCall EXCEPT !.fn = "floor_bucket", !.wall = w, !.ms = f,
                    !.aware = z[1], !.off = z[2], !.minutes = n] :
        w \in (0 - MaxWall)..MaxWall, f \in {0, 500},
        z \in {<<FALSE, 0>>, <<TRUE, 0>>, <<TRUE, 1>>}, n \in {1, 5}}

DtOf(c) == [ok |-> TRUE, wall |-> c.wall, ms |-> c.ms, aware |-> c.aware,
            off |-> c.off]

Fn_percentile ==
    /\ prog = "function" /\ pc = "call" /\ call.fn = "percentile"
    /\ result' = [NoResult EXCEPT !.done = TRUE,
                                  !.p = percentile(call.values, call.pct)]
    /\ pc' = "returned"
    /\ UNCHANGED <<prog, raw, merged_out, report, disk, call>>
    /\ UNCHANGED <<aggVars, allVars, mlVars>>

Fn_floor_bucket ==
    /\ prog = "function" /\ pc = "call" /\ call.fn = "floor_bucket"
    /\ result' = [NoResult EXCEPT
                    !.done = TRUE,
                    !.bucket = floor_bucket(DtOf(call), call.minutes)]
    /\ pc' = "returned"
    /\ UNCHANGED <<prog, raw, merged_out, report, disk, call>>
    /\ UNCHANGED <<aggVars, allVars, mlVars>>

InitFn ==
    /\ prog = "function" /\ pc = "call"
    /\ call \in PercentileCalls \cup BucketCalls
    /\ result = NoResult
    /\ input = <<>> /\ pos = 1 /\ bucket_minutes = 1
    /\ groups = EmptyMap /\ total_rows = 0 /\ by_service = EmptyMap
    /\ features = [m \in {1, 5} |-> NoCsv]
    /\ raw_files = <<>> /\ file_ix = 0 /\ service_default = ""
    /\ out_file = <<>> /\ raw = <<>> /\ tried = <<>>
    /\ written = 0 /\ skipped = 0 /\ total_written = 0 /\ total_skipped = 0
    /\ merged_out = <<>> /\ report = EmptyMap
    /\ disk = NoDisk /\ df_bucket = <<>> /\ pass_pc = NoPasses

---------------------------------------------------------------------------
(* Specifications.                                                         *)

Init == InitBuildFeatures

Next == BF_FoldLine \/ BF_WriteCsv1 \/ BF_WriteCsv5

\* a run of build_features.py
Spec == Init /\ [][Next]_vars

InitConvert == InitConvertAll \/ InitConvertLogs

NextConvert ==
    \/ CA_Unlink \/ CA_OpenFile \/ CA_Line \/ CA_CloseFile \/ CA_Finish
    \/ CL_Start \/ CL_Line \/ CL_WriteReport

\* a run of one of the two converters
SpecConvert == InitConvert /\ [][NextConvert]_vars

InitAny == Init \/ InitConvert

NextAny == Next \/ NextConvert

\* a run of any of the three programs
SpecAny == InitAny /\ [][NextAny]_vars

NextMl == ML_Start \/ ML_Bucket \/ ML_Aggregate \/ ML_Finish

\* a run of the pandas build_features.py
SpecMl == InitMl /\ [][NextMl]_vars

NextMlConcurrent == ML_Start \/ MLC_Bucket \/ ML_Aggregate \/ ML_Finish

\* the two passes of the pandas build_features.py run concurrently on the
\* frame main hands to both
SpecMlConcurrent == InitMl /\ [][NextMlConcurrent]_vars

InitBatch == InitConvert \/ InitMl

NextBatch == NextConvert \/ NextMl

\* a run of one of the programs that test for their input: either converter
\* or the pandas build_features.py
SpecBatch == InitBatch /\ [][NextBatch]_vars

\* either aggregator, on a canonical store of its own
InitAggregators == Init \/ InitMl

NextAggregators == Next \/ NextMl

SpecAggregators == InitAggregators /\ [][NextAggregators]_vars

NextFn == Fn_percentile \/ Fn_floor_bucket

\* one call of percentile or of floor_bucket
SpecFn == InitFn /\ [][NextFn]_vars

---------------------------------------------------------------------------
(* Partitioned folding, as section 4.5 and 5 of the specification describe *)
(* it: per-key accumulators of two partitions merge by adding counts,      *)
(* uniting event sets, concatenating duration lists and or-ing the label.  *)

MergeGroup(a, b) ==
    [total_logs |-> a.total_logs + b.total_logs,
     events |-> a.events \cup b.events,
     error_level_count |-> a.error_level_count + b.error_level_count,
     http_received |-> a.http_received + b.http_received,
     http_completed |-> a.http_completed + b.http_completed,
     status_present |-> a.status_present + b.status_present,
     duration_present |-> a.duration_present + b.duration_present,
     http_4xx |-> a.http_4xx + b.http_4xx,
     http_5xx |-> a.http_5xx + b.http_5xx,
     durations |-> a.durations \o b.durations,
     weak_label_anomaly |->
        IF a.weak_label_anomaly = 1 \/ b.weak_label_anomaly = 1
        THEN 1 ELSE 0]

Merge(ga, gb) ==
    [k \in DOMAIN ga \cup DOMAIN gb |->
        IF k \in DOMAIN ga /\ k \in DOMAIN gb THEN MergeGroup(ga[k], gb[k])
        ELSE IF k \in DOMAIN ga THEN ga[k] ELSE gb[k]]

---------------------------------------------------------------------------
(* Helpers of the properties.                                              *)

Perms(n) == {f \in [1..n -> 1..n] : \A i, j \in 1..n : f[i] = f[j] => i = j}

Permuted(q, f) == [i \in 1..Len(q) |-> q[f[i]]]

RECURSIVE Part(_, _, _, _)
\* the lines of q (from index i on) that the split f sends to partition j
Part(q, f, j, i) ==
    IF i > Len(q) THEN <<>>
    ELSE (IF f[i] = j THEN <<q[i]>> ELSE <<>>) \o Part(q, f, j, i + 1)

FoldOf(lines, minutes) == FoldFrom(LoopStart, lines, minutes)

Finished == prog = "build_features" /\ pc = "done"

Passes == {1, 5}

RowSet(m) == {features[m].rows[i] : i \in DOMAIN features[m].rows}

InUnit(x) == (x.whole = 0 /\ x.micro >= 0) \/ (x.whole = 1 /\ x.micro = 0)

\* the records of the file that are folded into the bucket of row r in the
\* pass of m minutes
InBucket(line, r, m) ==
    /\ line.kind = "object"
    /\ parse_ts(line.obj.timestamp).ok
    /\ Or(line.obj.service, Str("unknown")).s = r.service
    /\ isoformat(floor_bucket(parse_ts(line.obj.timestamp), m)) = r.bucket

SlowRecord(line) ==
    /\ line.obj.duration_ms # Null
    /\ ToNumber(line.obj.duration_ms).ok
    /\ ToNumber(line.obj.duration_ms).n >= 10000

---------------------------------------------------------------------------
(* Properties.                                                             *)

C2_RatesInUnitInterval ==
    \A m \in Passes : \A r \in RowSet(m) :
        InUnit(r.error_rate) /\ InUnit(r.http_4xx_rate)
          /\ InUnit(r.http_5xx_rate)

---------------------------------------------------------------------------
(* Properties of the converters.                                           *)

Last(q) == q[Len(q)]

\* a step of convert_all's loop: one more line has been read
ReadsLine == prog = "convert_all" /\ Len(raw') = Len(raw) + 1

Keeps == merged_out' = merged_out /\ out_file' = out_file /\ written' = written

Writes(rec) ==
    /\ merged_out' = Append(merged_out, rec)
    /\ out_file' = Append(out_file, rec)
    /\ written' = written + 1
    /\ skipped' = skipped

\* C5: every record of the canonical store has exactly the 13 keys of the
\* schema, whichever matcher of convert_all or normalize_log produced it.
C5_ExactSchemaKeys ==
    /\ \A i \in DOMAIN merged_out : DOMAIN merged_out[i] = SchemaKeys
    /\ \A i \in DOMAIN out_file : DOMAIN out_file[i] = SchemaKeys
    /\ Cardinality(SchemaKeys) = 13

\* C5 witness: the store holds a node-style record and a spring-style record
C5_Witness ==
    /\ prog = "convert_all" /\ Len(raw) = 2 /\ Len(merged_out) = 2
    /\ ~AcceptsJson(raw[1]) /\ AcceptsNode(raw[1])
    /\ tried = <<"json", "node", "delivery", "spring">>
    /\ merged_out[2]["event"] = Str("app.log")

MatcherOrder == <<"json", "node", "delivery", "spring">>

Accepts(name, line) ==
    CASE name = "json" -> AcceptsJson(line)
      [] name = "node" -> AcceptsNode(line)
      [] name = "delivery" -> AcceptsDelivery(line)
      [] name = "spring" -> AcceptsSpring(line)

ExtractionOf(name, line, sd) ==
    CASE name = "json" -> Parsed(JsonRecord(line.json.obj, sd))
      [] name = "node" -> parse_node_style(line, sd)
      [] name = "delivery" -> parse_delivery_style(line, sd)
      [] name = "spring" -> parse_spring_style(line, sd)

Accepting(line) == {i \in DOMAIN MatcherOrder : Accepts(MatcherOrder[i], line)}

FirstAccepting(line) ==
    CHOOSE i \in Accepting(line) : \A j \in Accepting(line) : i <= j

\* C6: for every line read, parse_any returns the extraction of the first
\* of JSON-object, node-style, DELIVERY-style, spring-style that accepts the
\* line (nothing when none does), the record written is that extraction, and
\* the matchers evaluated are exactly those up to the first acceptance.
C6_FirstAcceptanceWins ==
    [][ReadsLine /\ ~Last(raw').blank =>
          LET line == Last(raw')
              p == parse_any(line, service_default)
          IN  IF Accepting(line) = {}
              THEN /\ p.res = ParsedNone
                   /\ tried' = MatcherOrder
                   /\ Keeps
              ELSE LET k == FirstAccepting(line)
                       x == ExtractionOf(MatcherOrder[k], line,
                                         service_default)
                   IN  /\ p.res = x
                       /\ tried' = SubSeq(MatcherOrder, 1, k)
                       /\ Keeps \/ Writes(x.rec)]_vars

\* C6 witness: a line that the node-style and the DELIVERY-style matcher
\* both accept has been written as the node-style extraction
C6_Witness ==
    /\ prog = "convert_all" /\ raw # <<>> /\ merged_out # <<>>
    /\ AcceptsNode(Last(raw)) /\ AcceptsDelivery(Last(raw))
    /\ ~AcceptsJson(Last(raw))
    /\ tried = <<"json", "node">>
    /\ Last(merged_out) = parse_node_style(Last(raw), service_default).rec
    /\ Last(merged_out) # parse_delivery_style(Last(raw), service_default).rec

NotNull3(rec) ==
    /\ rec["timestamp"] # Null
    /\ rec["service"] # Null
    /\ rec["event"] # Null \/ rec["level"] # Null
          \/ rec["error_message"] # Null

\* not None, not "", not 0, not []
NonEmpty(v) == v # Null /\ v # Str("") /\ v # Num(0) /\ v # Lst(0)

NonEmpty3(rec) ==
    /\ NonEmpty(rec["timestamp"])
    /\ NonEmpty(rec["service"])
    /\ NonEmpty(rec["event"]) \/ NonEmpty(rec["level"])
          \/ NonEmpty(rec["error_message"])

SkippedSoFar == IF pc = "lines" THEN total_skipped + skipped ELSE total_skipped

\* the lines read so far that the dispatcher rejected (parse_any gave None)
DispatchMisses ==
    Cardinality({i \in DOMAIN raw : parse_any(raw[i], "x").res.kind = "none"})

\* C8: lines the dispatcher rejects and records the validity filter rejects
\* go to two distinct counters: the counter of the dispatcher's rejects
\* counts nothing else.
C8_DistinctSkipCounters ==
    prog = "convert_all" /\ pc # "raised" => SkippedSoFar = DispatchMisses

\* C9: a line none of the four matchers accepts adds one to skipped, changes
\* neither the written count nor the store nor the per-file output, and
\* raises nothing.
C9_DispatchMissIsSkipped ==
    [][ReadsLine /\ Accepting(Last(raw')) = {} =>
          /\ skipped' = skipped + 1
          /\ Keeps
          /\ pc' = pc
          /\ total_written' = total_written]_vars

\* C9 witness: a line of no format was read after a record was written
C9_Witness ==
    /\ prog = "convert_all" /\ pc = "lines" /\ Len(raw) = 2
    /\ Accepting(raw[2]) = {} /\ ~raw[2].blank
    /\ skipped = 1 /\ written = 1 /\ Len(merged_out) = 1

\* C10: no exception escapes the per-line loop of build_features,
\* convert_all or convert_logs.
C10_NoExceptionEscapes == pc # "raised"

---------------------------------------------------------------------------
(* Properties of the aggregation: what is counted where.                   *)

\* the lines the loop of the current pass has read
ReadSoFar == 1..(pos - 1)

\* the lines that are records / records whose timestamp parses
Records(I) == {i \in I : input[i].kind = "object"}
Parseable(I) == {i \in Records(I) : parse_ts(input[i].obj.timestamp).ok}

ServiceOf(i) == Or(input[i].obj.service, Str("unknown"))
KeyOf(i, m) ==
    <<ServiceOf(i), floor_bucket(parse_ts(input[i].obj.timestamp), m)>>

TotalLogs(rows) == SumSeq([i \in DOMAIN rows |-> rows[i].total_logs])

\* C11: in every pass the total_logs of the buckets add up to the number of
\* records read whose timestamp parses, each such record has its bucket, and
\* the raw totals (total_rows, by_service) count every record read, with or
\* without a parseable timestamp; the rows written add up the same way.
C11_ParsedCountedOnceUnparsedInTotals ==
    /\ prog = "build_features" /\ pc # "raised" =>
          /\ TotalLogs(Rows(groups)) = Cardinality(Parseable(ReadSoFar))
          /\ \A i \in Parseable(ReadSoFar) :
                KeyOf(i, bucket_minutes) \in DOMAIN groups
          /\ total_rows = Cardinality(Records(ReadSoFar))
          /\ DOMAIN by_service = {ServiceOf(i) : i \in Records(ReadSoFar)}
          /\ \A s \in DOMAIN by_service :
                by_service[s] =
                  Cardinality({i \in Records(ReadSoFar) : ServiceOf(i) = s})
    /\ \A m \in Passes :
          features[m].written =>
            TotalLogs(features[m].rows)
              = Cardinality(Parseable(DOMAIN input))

\* C11 witness: a finished run over three records, one of them without a
\* parseable timestamp: three rows loaded, two folded into buckets
C11_Witness ==
    /\ Finished /\ total_rows = 3
    /\ Cardinality(Parseable(DOMAIN input)) = 2
    /\ TotalLogs(features[5].rows) = 2
    /\ groups # EmptyMap


\* the (service, bucket) of a row, and of the records folded in a pass
RowKey(r) == <<r.service, r.bucket>>
FoldedKeys(m) ==
    {<<KeyOf(i, m)[1].s, isoformat(KeyOf(i, m)[2])>> :
        i \in Parseable(DOMAIN input)}

\* C12: the rows a pass wrote have pairwise distinct (service, bucket), and
\* their keys are exactly the keys of the records folded in the pass.
C12_OneRowPerKey ==
    \A m \in Passes :
        features[m].written =>
            LET rows == features[m].rows
            IN  /\ \A i, j \in DOMAIN rows :
                      RowKey(rows[i]) = RowKey(rows[j]) => i = j
                /\ {RowKey(rows[i]) : i \in DOMAIN rows} = FoldedKeys(m)

\* C12 witness: a one-minute pass wrote two rows of one service, one of them
\* for a bucket of two records, and the five-minute pass wrote one row
C12_Witness ==
    /\ Finished
    /\ Len(features[1].rows) = 2 /\ Len(features[5].rows) = 1
    /\ features[1].rows[1].service = features[1].rows[2].service
    /\ features[1].rows[1].total_logs = 2


---------------------------------------------------------------------------
(* Properties of percentile and floor_bucket.                              *)

\* linear interpolation between order statistics at rank (n - 1) * pct / 100,
\* to six decimals: sorted[floor r] + (r - floor r) * (sorted[ceil r] -
\* sorted[floor r]), the element at r when r is integral
Interpolated(values, pct) ==
    LET sorted == SortSeq(values, LAMBDA a, b : a < b)
        r100 == (Len(values) - 1) * pct
        lo == r100 \div 100
        hi == IF r100 % 100 = 0 THEN lo ELSE lo + 1
    IN  Round6(100 * sorted[lo + 1]
                 + (r100 - 100 * lo) * (sorted[hi + 1] - sorted[lo + 1]), 100)

PercentileReturned == prog = "function" /\ call.fn = "percentile" /\ result.done

\* C13: percentile is the linear interpolation between order statistics at
\* rank (n - 1) * p of the sorted list; 0.0 for the empty list, the element
\* for a single-element list, 48.0 for [10,20,30,40,50] at p = 0.95.
C13_PercentileInterpolates ==
    PercentileReturned =>
        /\ call.values = <<>> => result.p = Zero6
        /\ call.values # <<>> =>
              result.p = Interpolated(call.values, call.pct)
        /\ Len(call.values) = 1 =>
              result.p = [whole |-> call.values[1], micro |-> 0]
        /\ call.values = <<10, 20, 30, 40, 50>> /\ call.pct = 95 =>
              result.p = [whole |-> 48, micro |-> 0]

\* C13 witness: the 95th percentile of an unsorted list of five durations
\* with a rank between two order statistics has been computed
C13_Witness ==
    /\ PercentileReturned /\ call.pct = 95
    /\ call.values = <<50, 10, 40, 20, 30>>
    /\ result.p = [whole |-> 48, micro |-> 0]


---------------------------------------------------------------------------
(* The worked example of one record.                                       *)

\* {"timestamp":"2025-01-01T00:00:30Z","service":"svc-a","level":"ERROR",
\*  "event":"http.request.completed","status_code":503,"duration_ms":12000}
ExampleRecord == Rec(SvcA, T1, Str("ERROR"), Completed, Num(503), Num(12000))

ExampleRun == prog = "build_features" /\ input = <<ExampleRecord>>
                /\ features[1].written

Whole(n) == [whole |-> n, micro |-> 0]

\* the row of the example, but for its bucket text
ExampleRowValues(r) ==
    /\ r.service = "svc-a"
    /\ r.total_logs = 1 /\ r.http_completed = 1 /\ r.http_5xx = 1
    /\ r.error_level_count = 1
    /\ r.duration_mean = Whole(12000) /\ r.duration_p95 = Whole(12000)
    /\ r.duration_max = Whole(12000)
    /\ r.error_rate = Whole(1) /\ r.http_5xx_rate = Whole(1)
    /\ r.weak_label_anomaly = 1

\* C14 as stated: the one-minute pass over the example record alone writes
\* exactly one row, with bucket 2025-01-01T00:00:00Z, total_logs = 1,
\* http_completed = 1, http_5xx = 1, error_level_count = 1, duration mean,
\* p95 and max 12000, error_rate 1.0, http_5xx_rate 1.0 and the weak label.
C14_ExampleRowZulu ==
    ExampleRun =>
        /\ Len(features[1].rows) = 1
        /\ features[1].rows[1].bucket = "2025-01-01T00:00:00Z"
        /\ ExampleRowValues(features[1].rows[1])

\* C14 amended: the same row, with the bucket written as isoformat() writes
\* the UTC window start: 2025-01-01T00:00:00+00:00.
C14_ExampleRowOffset ==
    ExampleRun =>
        /\ Len(features[1].rows) = 1
        /\ features[1].rows[1].bucket = "2025-01-01T00:00:00+00:00"
        /\ ExampleRowValues(features[1].rows[1])

\* C14 witness: the one-minute pass over the example record has written
C14_Witness == ExampleRun /\ features[1].rows # <<>> /\ bucket_minutes = 5


---------------------------------------------------------------------------
(* The passes of the pandas aggregator.                                    *)

---------------------------------------------------------------------------
(* A run without its input.                                                *)

\* no raw log file for a converter, no canonical store for the aggregator
InputMissing ==
    \/ prog \in {"convert_all", "convert_logs"} /\ raw_files = <<>>
    \/ prog = "build_features_ml" /\ disk["PROCESSED_LOGS"] = "absent"

\* C15: when the input is missing the first step of the program is its
\* failure, and no step creates, truncates or deletes a file.
C15_MissingInputFailsAtStart ==
    [][InputMissing =>
          /\ disk' = disk
          /\ pc = "start" => pc' = "failed"]_vars


---------------------------------------------------------------------------
(* The accumulators during the fold.                                       *)

\* C17: within a pass, a step of the fold never takes the weak label from
\* an accumulator that has it: the accumulator is still there and its label
\* is still set.
C17_WeakLabelMonotone ==
    [][prog = "build_features" /\ bucket_minutes' = bucket_minutes =>
          \A k \in DOMAIN groups :
              groups[k].weak_label_anomaly = 1 =>
                  /\ k \in DOMAIN groups'
                  /\ groups'[k].weak_label_anomaly = 1]_vars

\* C17 witness: an accumulator labelled by a slow record alone has then
\* received a record that meets none of the conditions of the label
C17_Witness ==
    /\ prog = "build_features" /\ pc = "fold" /\ pos = 3
    /\ Parseable({1, 2}) = {1, 2}
    /\ KeyOf(1, bucket_minutes) = KeyOf(2, bucket_minutes)
    /\ SlowRecord(input[1]) /\ ~SlowRecord(input[2])
    /\ LET g == groups[KeyOf(2, bucket_minutes)]
       IN  /\ g.total_logs = 2 /\ g.weak_label_anomaly = 1
           /\ g.http_5xx = 0 /\ g.error_level_count = 0


\* the records read in the current pass that fell into the bucket of key k
BucketOf(k) ==
    {i \in Parseable(ReadSoFar) : KeyOf(i, bucket_minutes) = k}

\* the spellings of ERROR among the levels of the model
ErrorSpellings == {"ERROR", "error", "Error"}

HasErrorLevel(obj) == obj.level.t = "str" /\ obj.level.s \in ErrorSpellings

\* the status_code of the record is a number from lo to hi
StatusIn(obj, lo, hi) ==
    /\ obj.status_code # Null
    /\ ToNumber(obj.status_code).ok
    /\ lo <= ToNumber(obj.status_code).n
    /\ ToNumber(obj.status_code).n <= hi

HowMany(I, P(_)) == Cardinality({i \in I : P(input[i].obj)})

---------------------------------------------------------------------------
(* The window of an instant.                                               *)

\* the instant of the call, in milliseconds from the epoch in UTC; a
\* datetime without offset counts as UTC
EpochMillis(c) ==
    (c.wall - (IF c.aware THEN c.off ELSE 0) * 60) * 1000 + c.ms

\* C19: the window start floor_bucket returns is a multiple of the window
\* size w and w_start <= epoch_seconds(timestamp) < w_start + w, for every
\* instant, with or without fractional seconds, before or after the epoch.
C19_WindowContainsInstant ==
    prog = "function" /\ call.fn = "floor_bucket" /\ result.done =>
        LET w == call.minutes * 60
        IN  /\ result.bucket % w = 0
            /\ result.bucket * 1000 <= EpochMillis(call)
            /\ EpochMillis(call) < (result.bucket + w) * 1000


---------------------------------------------------------------------------
(* C20: a malformed sub-payload of a node-style or DELIVERY-style line.     *)

\* the matcher parse_any hands a line to
MatcherOf(line) ==
    IF line.blank THEN "none"
    ELSE IF AcceptsJson(line) THEN "json"
    ELSE IF AcceptsNode(line) THEN "node"
    ELSE IF AcceptsDelivery(line) THEN "delivery"
    ELSE "spring"

\* the data= payload of a node-style line, or the ctx= payload of a
\* DELIVERY-style line, is there and json.loads does not make an object of
\* what the matcher hands it
MalformedPayload(line) ==
    \/ /\ MatcherOf(line) = "node"
       /\ HasSeg(line.segs, "data")
       /\ LastSeg(line.segs, "data").loads.kind # "object"
    \/ /\ MatcherOf(line) = "delivery"
       /\ HasSeg(DeliverySegs(line), "ctx")
       /\ LET m == LastSeg(DeliverySegs(line), "ctx").region
          IN  ~m.found \/ m.loads.kind # "object"

\* the fields of a record that the matchers take from the payload
PayloadFields ==
    {"request_id", "session_id", "method", "path", "status_code",
     "duration_ms", "error_message", "error_type", "stacktrace_hash"}

\* C20: for every line convert_all has read that the node-style or the
\* DELIVERY-style matcher accepts and whose data= / ctx= payload does not
\* decode or is no JSON object, the matcher returns a record, every
\* payload-derived field of that record is null, and no exception is raised.
C20_MalformedPayloadIsPartial ==
    prog = "convert_all" =>
      \A i \in DOMAIN raw :
        MalformedPayload(raw[i]) =>
          LET res == parse_any(raw[i], service_default).res
          IN  /\ res.kind = "record"
              /\ \A f \in PayloadFields : res.rec[f] = Null

---------------------------------------------------------------------------
(* C21: a line in braces that is no JSON object.                            *)

\* the line starts with { and ends with } and json.loads makes no object of it
BracedNotObject(line) ==
    ~line.blank /\ line.braced /\ safe_json_loads(line.json).kind # "object"

\* what the node-style, DELIVERY-style and spring-style matchers, asked in
\* that order, make of a line
AfterJson(line, sd) ==
    IF AcceptsNode(line)
    THEN [res |-> parse_node_style(line, sd), tried |-> <<"json", "node">>]
    ELSE IF AcceptsDelivery(line)
    THEN [res |-> parse_delivery_style(line, sd),
          tried |-> <<"json", "node", "delivery">>]
    ELSE [res |-> parse_spring_style(line, sd), tried |-> MatcherOrder]

\* C21: when convert_all reads a line that starts with { and ends with } and
\* does not decode to a JSON object, the JSON matcher raises nothing and
\* reports no match: the line goes to the node-style, then the DELIVERY-style,
\* then the spring-style matcher, and what the first of them that accepts it
\* extracts is what parse_any returns and what the loop writes or skips.
C21_BracedNonJsonFallsThrough ==
    [][ReadsLine /\ BracedNotObject(Last(raw')) =>
          LET line == Last(raw')
              a == AfterJson(line, service_default)
          IN  /\ tried' = a.tried
              /\ parse_any(line, service_default).res = a.res
              /\ a.res.kind # "raised" => pc' = pc
              /\ IF a.res.kind = "record" /\ is_valid(a.res.rec)
                 THEN Writes(a.res.rec)
                 ELSE Keeps]_vars

\* C21 witness: a line in braces that is no JSON was written as the
\* node-style extraction, and one as the DELIVERY-style extraction
C21_Witness ==
    /\ prog = "convert_all" /\ Len(raw) = 2 /\ Len(merged_out) = 2
    /\ BracedNotObject(raw[1]) /\ BracedNotObject(raw[2])
    /\ AcceptsNode(raw[1]) /\ ~AcceptsNode(raw[2]) /\ AcceptsDelivery(raw[2])
    /\ tried = <<"json", "node", "delivery">>
    /\ merged_out[1] = parse_node_style(raw[1], service_default).rec
    /\ merged_out[2] = parse_delivery_style(raw[2], service_default).rec

---------------------------------------------------------------------------
(* C22: the case of the level.                                              *)

\* a level that is a string is in upper case
UpperCased(level) == level.t = "str" => level.s = Upper(level.s)

\* C22: in every record of the canonical store and of the per-file output a
\* level that is not null is in upper case, whichever matcher of convert_all
\* (JSON object, node-style, DELIVERY-style, spring-style) or normalize_log
\* produced the record.
C22_LevelUpperCased ==
    /\ \A i \in DOMAIN merged_out : UpperCased(merged_out[i]["level"])
    /\ \A i \in DOMAIN out_file : UpperCased(out_file[i]["level"])

---------------------------------------------------------------------------
(* C23: empty error texts.                                                  *)

NoEmptyError(rec) ==
    rec["error_message"] # Str("") /\ rec["error_type"] # Str("")

\* C23: in every record of the canonical store and of the per-file output,
\* error_message and error_type are never the empty string: an empty string
\* that a matcher of convert_all or normalize_log extracted is stored as null.
C23_NoEmptyErrorText ==
    /\ \A i \in DOMAIN merged_out : NoEmptyError(merged_out[i])
    /\ \A i \in DOMAIN out_file : NoEmptyError(out_file[i])

---------------------------------------------------------------------------
(* C24: text after the JSON object of ctx=.                                 *)

\* C24: when convert_all reads a DELIVERY-style line whose ctx value is a
\* JSON object followed by text that is no JSON, the fields of the object
\* (request id, status, duration) are in the record returned and written,
\* for every such text, text with a } or a | included.
C24_CtxObjectBeforeTrailingText ==
    [][ReadsLine /\ (\E t \in Trailings : Last(raw') = TrailingCtxLine(t)) =>
          LET res == parse_any(Last(raw'), service_default).res
          IN  /\ res.kind = "record"
              /\ res.rec["request_id"] = CtxFields["requestId"]
              /\ res.rec["status_code"] = CtxFields["status"]
              /\ res.rec["duration_ms"] = CtxFields["durationMs"]
              /\ Writes(res.rec)]_vars

---------------------------------------------------------------------------
(* C25: the weak label of the two aggregators.                              *)

\* the records of the input that both aggregators put into a bucket
Bucketed ==
    {i \in DOMAIN input :
        input[i].kind = "object" /\ parse_ts(input[i].obj.timestamp).ok}

\* the accumulator the per-record fold of w minutes has for record i
FoldGroupOf(i, w) ==
    FoldOf(input, w).groups[
        <<Or(input[i].obj.service, Str("unknown")),
          floor_bucket(parse_ts(input[i].obj.timestamp), w)>>]

\* the row the pandas pass of w minutes wrote for record i
MlRowOf(i, w) ==
    LET row == CleanRow(input[i].obj)
        R == features[w].rows
    IN  R[CHOOSE k \in DOMAIN R :
            /\ R[k].service = row.service.s
            /\ R[k].bucket = dt_floor(row.timestamp_dt.n, w)]

\* C25: for the same canonical input and the same window size, the
\* per-record fold of anomaly-detection-agent and the aggregation over final
\* counts of anomaly-ml give the bucket of every record the same
\* weak_label_anomaly.
C25_SameWeakLabel ==
    prog = "build_features_ml" =>
        \A w \in Passes :
            features[w].written /\ ~FoldOf(input, w).raised =>
                \A i \in Bucketed :
                    MlRowOf(i, w).weak_label_anomaly
                      = FoldGroupOf(i, w).weak_label_anomaly

---------------------------------------------------------------------------
(* C26: the counts of an accumulator.                                       *)

WellCounted(g) ==
    /\ g.total_logs >= 1
    /\ g.error_level_count <= g.total_logs
    /\ g.http_received + g.http_completed <= g.total_logs
    /\ g.http_4xx + g.http_5xx <= g.status_present
    /\ g.status_present <= g.total_logs
    /\ g.duration_present = Len(g.durations)
    /\ g.duration_present <= g.total_logs
    /\ Cardinality(g.events) <= g.total_logs

\* C26: after every step of the fold every accumulator that exists has
\* total_logs >= 1, error_level_count <= total_logs, http_received +
\* http_completed <= total_logs, http_4xx + http_5xx <= status_present <=
\* total_logs, duration_present = length(durations) <= total_logs and no more
\* distinct events than total_logs.
C26_AccumulatorCounts ==
    prog = "build_features" => \A key \in DOMAIN groups : WellCounted(groups[key])

\* C26 witness: an accumulator of three records with a status and a
\* duration each, one 4xx, one 5xx, one neither, and two distinct events
C26_Witness ==
    /\ prog = "build_features" /\ pc = "fold"
    /\ \E key \in DOMAIN groups :
          LET g == groups[key]
          IN  /\ g.total_logs = 3 /\ g.status_present = 3
              /\ g.http_4xx = 1 /\ g.http_5xx = 1
              /\ g.duration_present = 3 /\ Cardinality(g.events) = 2

---------------------------------------------------------------------------
(* C27: what one record of the fold touches.                                *)

\* the loop of the current pass reads line pos
FoldsLine ==
    prog = "build_features" /\ pc = "fold" /\ pos <= Len(input)
      /\ pos' = pos + 1

\* C27: folding one record creates or updates only the accumulator whose key
\* is the (service, window start) of that record: every accumulator with
\* another key is left as it was, none is removed, and a line that is not put
\* into a bucket touches no accumulator.
C27_FoldTouchesOneKey ==
    [][FoldsLine =>
          /\ \A k \in DOMAIN groups : k \in DOMAIN groups'
          /\ IF pos \in Parseable({pos})
             THEN \A k \in DOMAIN groups' :
                     k # KeyOf(pos, bucket_minutes) =>
                         k \in DOMAIN groups /\ groups'[k] = groups[k]
             ELSE groups' = groups
          /\ pos \in Parseable({pos}) /\ pc' = "fold" =>
                LET key == KeyOf(pos, bucket_minutes)
                IN  /\ key \in DOMAIN groups'
                    /\ groups'[key].total_logs
                         = GroupAt(groups, key).total_logs + 1]_vars

\* C27 witness: of two accumulators of one service, the one that has the
\* key of the last record read has two records, the other has one
C27_Witness ==
    /\ prog = "build_features" /\ pc = "fold" /\ pos = 4
    /\ Parseable({1, 2, 3}) = {1, 2, 3}
    /\ KeyOf(1, bucket_minutes) = KeyOf(3, bucket_minutes)
    /\ KeyOf(1, bucket_minutes)[1] = KeyOf(2, bucket_minutes)[1]
    /\ KeyOf(1, bucket_minutes) # KeyOf(2, bucket_minutes)
    /\ groups[KeyOf(3, bucket_minutes)].total_logs = 2
    /\ groups[KeyOf(2, bucket_minutes)].total_logs = 1

---------------------------------------------------------------------------
(* C28: the five-minute rows and the one-minute rows of one run.            *)

AdditiveCounts ==
    {"total_logs", "error_level_count", "http_received", "http_completed",
     "status_present", "duration_present", "http_4xx", "http_5xx"}

RECURSIVE SumOver(_, _)
\* the sum of column c over a set of rows
SumOver(R, c) ==
    IF R = {} THEN 0
    ELSE LET r == CHOOSE x \in R : TRUE
         IN  r[c] + SumOver(R \ {r}, c)

\* the window start a bucket text of a CSV stands for, in seconds
BucketSeconds(text) ==
    CHOOSE b \in DOMAIN IsoFormatTable : IsoFormatTable[b] = text

\* the rows R5 are the rows R1 added up by service and five-minute window;
\* secs gives the window start of a row in seconds
AddsUp(R1, R5, secs(_)) ==
    /\ \A r5 \in R5 :
          LET inside == {r1 \in R1 :
                           /\ r1.service = r5.service
                           /\ secs(r5.bucket) <= secs(r1.bucket)
                           /\ secs(r1.bucket) < secs(r5.bucket) + 300}
          IN  /\ \A c \in AdditiveCounts : r5[c] = SumOver(inside, c)
              /\ r5.weak_label_anomaly = 1
                    <=> \E r1 \in inside : r1.weak_label_anomaly = 1
    /\ \A r1 \in R1 : \E r5 \in R5 :
          /\ r1.service = r5.service
          /\ secs(r5.bucket) <= secs(r1.bucket)
          /\ secs(r1.bucket) < secs(r5.bucket) + 300

\* C28: when a run of either aggregator has written both files, every
\* five-minute row's total_logs, error_level_count, http_received,
\* http_completed, status_present, duration_present, http_4xx and http_5xx
\* are the sums of those counts over the one-minute rows of the same service
\* whose bucket lies in [window_start, window_start + 5 min), its
\* weak_label_anomaly is the OR of theirs, and every one-minute row lies in
\* the window of a five-minute row.
C28_FiveMinuteRowsAddUp ==
    /\ Finished =>
          AddsUp(RowSet(1), RowSet(5), BucketSeconds)
    /\ prog = "build_features_ml" /\ pc = "done" =>
          AddsUp(RowSet(1), RowSet(5), LAMBDA b : b)

\* C28 witness: a finished run of the per-record fold whose five-minute row
\* of svc-a adds up two one-minute rows, one labelled and one not
C28_Witness ==
    /\ Finished
    /\ \E r5 \in RowSet(5) : \E a, b \in RowSet(1) :
          /\ a.service = r5.service /\ b.service = r5.service
          /\ a.bucket # b.bucket
          /\ r5.total_logs = 3 /\ a.total_logs = 2 /\ b.total_logs = 1
          /\ r5.weak_label_anomaly = 1
          /\ a.weak_label_anomaly # b.weak_label_anomaly

---------------------------------------------------------------------------
(* C29: a number under the primary key of an alias chain.                   *)

\* a number under key k of an object is the value of field f of the record
KeptAs(obj, k, rec, f) == obj[k].t = "num" => rec[f] = obj[k]

\* C29: when a raw record has a number as status_code or duration_ms under
\* the primary key of its alias chain (status_code / duration_ms in a JSON
\* object, status / durationMs in a ctx payload), the canonical record has
\* that number, 0 included: no later alias and no null takes its place.
C29_PrimaryNumberKept ==
    /\ prog = "convert_all" =>
          \A i \in DOMAIN raw :
              LET rec == parse_any(raw[i], service_default).res.rec
              IN  /\ MatcherOf(raw[i]) = "json" =>
                        /\ KeptAs(raw[i].json.obj, "status_code",
                                  rec, "status_code")
                        /\ KeptAs(raw[i].json.obj, "duration_ms",
                                  rec, "duration_ms")
                  /\ MatcherOf(raw[i]) = "delivery"
                        /\ HasSeg(DeliverySegs(raw[i]), "ctx")
                        /\ ~MalformedPayload(raw[i]) =>
                        LET ctx == LastSeg(DeliverySegs(raw[i]), "ctx")
                                      .region.loads.obj
                        IN  /\ KeptAs(ctx, "status", rec, "status_code")
                            /\ KeptAs(ctx, "durationMs", rec, "duration_ms")
    /\ prog = "convert_logs" =>
          \A i \in DOMAIN raw :
              raw[i].kind = "object" /\ ~NormalizeRaises(raw[i]) =>
                  /\ KeptAs(raw[i].obj, "status_code",
                            normalize_log(raw[i]), "status_code")
                  /\ KeptAs(raw[i].obj, "duration_ms",
                            normalize_log(raw[i]), "duration_ms")

---------------------------------------------------------------------------
(* C30: the conversion report.                                              *)

RECURSIVE SumMap(_)
\* the sum of the values of a map
SumMap(f) ==
    IF DOMAIN f = {} THEN 0
    ELSE LET k == CHOOSE x \in DOMAIN f : TRUE
         IN  f[k] + SumMap([x \in DOMAIN f \ {k} |-> f[x]])

\* C30: when convert_logs has ended with its report written, every input line
\* is in exactly one outcome of the report: total_lines = written +
\* skipped_invalid_json + skipped_not_object, and by_service_written adds up
\* to written.
C30_ReportAccountsForEveryLine ==
    prog = "convert_logs" /\ pc = "done" =>
        /\ report.total_lines
             = report.written + report.skipped_invalid_json
                 + report.skipped_not_object
        /\ SumMap(report.by_service_written) = report.written

=============================================================================
